---- MODULE Spec2Model ----
(***************************************************************************)
(* discord-player: the per-guild task queue (AsyncQueue), Player.play,     *)
(* the ffmpeg filter setters with their hot-swap replay, the default       *)
(* voice-state reconciliation of Player._handleVoiceState, and the query   *)
(* resolution of Player.search over the registered extractors.             *)
(***************************************************************************)
EXTENDS Integers, Sequences, FiniteSets, TLC

\* ---------------------------------------------------------------- bounds
MaxCalls == 3
MaxQueues == 2
MaxElapsed == 2
MaxTracks == 2
MaxTimers == 3
MaxSearches == 2
MaxActivations == 2
MaxPlayers == 3

\* ------------------------------------------------------------- universes
Null == "null"
Guilds == {"gA", "gB"}
CoreGuilds == {"gA"}
Channels == {"vc1", "vc2"}
TextChannel == "text"
Calls == 1..MaxCalls
NoTrack == 0
NoQueue == 0
NoTimer == 0
Me == "me"
Humans == {"h1"}
OtherBots == {"b1"}
Members == {Me} \cup Humans \cup OtherBots
StageChannels == {"vc2"}

\* Track t of the result handed to call c.
TrackOf(c, i) == c * 10 + i

TracksOfCall(c, n) == [i \in 1..n |-> TrackOf(c, i)]

\* AudioFilters.filters keys, in Object.keys order.
FilterNames == <<"bassboost", "nightcore", "vaporwave">>

FilterSet == {FilterNames[i] : i \in 1..Len(FilterNames)}

VARIABLES
    nodes,      \* GuildNodeManager.cache: guild -> registered queue id or NoQueue
    queues,     \* every GuildQueue object ever created, by queue id
    calls,      \* the in-flight Player.play / filter setter invocations
    emitted,    \* events emitted on player.events
    voice,      \* the cached voice state of each member of the guild
    timers,     \* the pending setTimeout callbacks (empty-channel countdowns)
    options,    \* Player.options and the listeners of player.events
    player,     \* Player.extractors, options.blockExtractors, queryCache
    search,     \* the Player.search invocation in flight (or the last one)
    graph,      \* queue.filters: dispatcher stages, _lastFiltersCache, last dump()
    apple       \* an AppleMusicExtractor: options, _stream, _isYtdl, activations

vars ==
    <<nodes, queues, calls, emitted, voice, timers, options, player, search,
      graph, apple>>

searchVars == <<player, search>>

auxVars == <<graph, apple>>

voiceVars == <<voice, timers, options>>

\* ------------------------------------------------------------ AsyncQueue
\* acquire(): pushes a new entry; the entry is resolved when it is the head.
AsyncQueueAcquire(entries, c) == Append(entries, c)

\* AsyncQueueResolved over one tasks queue shared by all guilds: an entry
\* waits for every entry acquired earlier, whatever its guild
AsyncQueueResolvedShared(entries, c) ==
    /\ entries # <<>> /\ Head(entries) = c
    /\ \A q \in DOMAIN queues :
          queues[q].entries # <<>> => Head(queues[q].entries) >= c

\* entry.getTask() is resolved for the head-of-line entry only.
AsyncQueueResolved(entries, c) == entries # <<>> /\ Head(entries) = c

\* release(): shifts the head entry out and resolves the next one.
AsyncQueueRelease(entries) == IF entries = <<>> THEN <<>> ELSE Tail(entries)

\* -------------------------------------------------------------- results
\* A SearchResult: n tracks and an optional playlist of pl tracks.
NoPlaylist == -1

Results ==
    {[n |-> 0, pl |-> NoPlaylist], [n |-> 0, pl |-> 1]}
    \cup {[n |-> k, pl |-> NoPlaylist] : k \in 1..MaxTracks}
    \cup {[n |-> k, pl |-> k] : k \in 1..MaxTracks}

\* SearchResult.isEmpty()
IsEmpty(r) == r.n = 0

\* ---------------------------------------------------------- GuildQueue
NewQueue(g) ==
    [guild |-> g, deleted |-> FALSE, entries |-> <<>>, nextId |-> 1,
     channel |-> Null, tracks |-> <<>>, currentTrack |-> NoTrack,
     playing |-> FALSE, paused |-> FALSE, elapsed |-> 0,
     ffmpegFilters |-> <<>>, timeout |-> NoTimer, leaveOnEmpty |-> TRUE]

\* ------------------------------------------------- extractors and queries
\* identifiers: AppleMusicExtractor, an extractor of another source, and
\* a plain BaseExtractor
ExtractorIds == {"apple", "other", "base"}

\* a query type, or a forced 'ext:<identifier>' search engine
QT(name) == [ext |-> FALSE, name |-> name]

Ext(id) == [ext |-> TRUE, name |-> id]

AUTO == QT("auto")

AUTO_SEARCH == QT("autoSearch")

\* validate(query) without a type argument
NoType == QT("undefined")

\* the query types AppleMusicExtractor.validate accepts
AppleMusicTypes ==
    {QT("appleMusicAlbum"), QT("appleMusicPlaylist"), QT("appleMusicSong"),
     QT("appleMusicSearch"), AUTO, AUTO_SEARCH}

\* searchEngine.startsWith('ext:')
StartsWithExt(engine) == engine.ext

\* searchEngine.substring(4)
Substring4(engine) == engine.name

\* QueryResolver.resolve(query, fallbackSearchEngine): a recognised URL has
\* its own type, free text gets the fallback engine
QueryResolverResolve(q, fallback) ==
    IF q = "appleUrl" THEN QT("appleMusicSong") ELSE fallback

\* what extractor x's validate(query, type) can do: "true", "false", "throw"
ValidateOutcomes(x, type) ==
    IF x = "apple" THEN {IF type \in AppleMusicTypes THEN "true" ELSE "false"}
    ELSE IF x = "base" THEN {"false"}
    ELSE {"true", "false", "throw"}

\* ExtractorInfo values: createResponse(), createResponse(null, tracks),
\* { playlist, tracks: playlist.tracks } with or without tracks
ExtractorInfos ==
    {[n |-> 0, pl |-> NoPlaylist], [n |-> 0, pl |-> 0],
     [n |-> 1, pl |-> NoPlaylist], [n |-> 1, pl |-> 1]}

Throw == [n |-> -1, pl |-> NoPlaylist]

\* what extractor x's handle(query, context) can do
HandleOutcomes(x) ==
    IF x = "base" THEN {Throw} ELSE ExtractorInfos \cup {Throw}

\* new SearchResult(player, data)
SearchResult(q, type, info, x) ==
    [query |-> q, type |-> type, n |-> info.n, pl |-> info.pl, ext |-> x]

\* SearchResult.hasTracks()
HasTracks(r) == r.n > 0

\* no Player: Player[kSingleton] is not defined, nothing was returned
NoPlayer == 0

\* a Player whose constructor body has run once
NewInstance == [inits |-> 1, registered |-> TRUE, destroyed |-> FALSE]

\* the Player's extractor registry, default block list and query cache, with
\* the state of the process: Player[kSingleton], the Players constructed so
\* far and the one the last `new Player` gave back. The Player modelled is
\* the first one constructed.
NewPlayer(registry, blocked, caching) ==
    [extractors |-> registry, blockExtractors |-> blocked,
     queryCache |-> [enabled |-> caching, data |-> {}],
     singleton |-> 1, instances |-> <<NewInstance>>, returned |-> 1]

NoResult == SearchResult("", AUTO, Throw, Null)

\* the summary kept of the search that ran before the current one
NoPrev ==
    [kind |-> "none", query |-> "", engine |-> AUTO, type |-> AUTO,
     ignoreCache |-> FALSE, result |-> NoResult]

IdleSearch ==
    [count |-> 0, pc |-> "idle", kind |-> "none", query |-> "",
     engine |-> AUTO, ignoreCache |-> FALSE, block |-> {}, type |-> AUTO,
     ext |-> Null, i |-> 0, last |-> Null, result |-> NoResult, hit |-> FALSE,
     vlog |-> {}, hlog |-> {}, reads |-> 0, wrote |-> {}, prev |-> NoPrev]

\* the call is not a setFilters(input) call
NoInput == [form |-> "none", v |-> <<>>]

IdleCall ==
    [kind |-> "none", pc |-> "idle", q |-> NoQueue, id |-> 0, vc |-> Null,
     result |-> [n |-> 0, pl |-> NoPlaylist], err |-> Null,
     input |-> NoInput, next |-> <<>>, ignore |-> FALSE,
     seek |-> 0, seekTrack |-> NoTrack, prev |-> <<>>, replayed |-> NoTrack,
     atElapsed |-> 0, same |-> FALSE, held |-> FALSE,
     waited |-> FALSE, ok |-> FALSE, rel |-> 0, relOwn |-> TRUE,
     track |-> NoTrack]

\* ----------------------------------- GuildQueueAudioFilters, AFilterGraph
\* queue.options.volume is not a number
NoVolume == -1

\* queue.dispatcher is undefined: no stream is active
NoDispatcher ==
    [live |-> FALSE, bandMultipliers |-> <<>>, biquad |-> Null, filters |-> <<>>,
     volume |-> 0, targetSampleRate |-> 0, sampleRate |-> 0]

\* _lastFiltersCache after the constructor ran with queue.options.volume
NewFiltersCache(volume) ==
    [biquad |-> Null, equalizer |-> <<>>, filters |-> <<>>,
     volume |-> IF volume = NoVolume THEN 100 ELSE volume, sampleRate |-> -1]

\* bandMultipliers.map((m, i) => ({ band: i, gain: m }))
Bands(multipliers) ==
    [i \in 1..Len(multipliers) |-> [band |-> i - 1, gain |-> multipliers[i]]]

\* resampler.targetSampleRate || resampler.sampleRate || 48000
SampleRate(d) ==
    IF d.live /\ d.targetSampleRate # 0 THEN d.targetSampleRate
    ELSE IF d.live /\ d.sampleRate # 0 THEN d.sampleRate
    ELSE 48000

\* AFilterGraph.dump() with ffmpeg selection ffmpeg and dispatcher d; the
\* getters of GuildQueueAudioFilters yield null without a dispatcher
Dump(ffmpeg, d) ==
    [ffmpeg |-> ffmpeg,
     equalizer |-> Bands(IF d.live THEN d.bandMultipliers ELSE <<>>),
     biquad |-> Null,
     filters |-> IF d.live THEN d.filters ELSE <<>>,
     sampleRate |-> SampleRate(d),
     volume |-> IF d.live THEN d.volume ELSE 100]

\* no dump() was taken yet
NoDump ==
    [taken |-> FALSE, out |-> Dump(<<>>, NoDispatcher),
     dispatcher |-> NoDispatcher, cache |-> NewFiltersCache(NoVolume)]

\* queue.filters of a new queue
NewFilters(volume, ffmpeg) ==
    [ffmpeg |-> ffmpeg, dispatcher |-> NoDispatcher,
     cache |-> NewFiltersCache(volume), dumped |-> NoDump]

\* ------------------------------------------------- AppleMusicExtractor
\* private _stream!: StreamFN, before any assignment
NoStream == "undefined"

\* new AppleMusicExtractor(context, options): createStream tells whether
\* options.createStream is a function
NewExtractor(createStream) ==
    [createStream |-> createStream, stream |-> NoStream, isYtdl |-> FALSE,
     queued |-> 0, loading |-> 0, started |-> 0, completed |-> 0,
     streamed |-> {}]

\* the filter graph and the extractor before anything was done with them
InitAux ==
    /\ graph = NewFilters(NoVolume, <<>>)
    /\ apple = NewExtractor(FALSE)

\* the arguments of the last call of the caller's voiceStateUpdate handler
NotHandled == [m |-> Null, from |-> Null, to |-> Null, deleted |-> FALSE]

\* the Player after construction, before any play() or voice event
InitCore ==
    /\ nodes = [g \in Guilds |-> NoQueue]
    /\ queues = <<>>
    /\ calls = [c \in Calls |-> IdleCall]
    /\ emitted = {}
    /\ voice = [m \in Members |-> [ch |-> Null, mute |-> FALSE, suppress |-> FALSE]]
    /\ timers = [pending |-> {}, armed |-> 0, fired |-> NoTimer]
    /\ options = [lockVoiceStateHandler |-> FALSE, listener |-> FALSE,
                  handled |-> NotHandled]
    /\ search = IdleSearch

Init ==
    /\ InitCore
    /\ player = NewPlayer(<<"apple", "other">>, {}, TRUE)
    /\ InitAux

\* Invocations are numbered in the order in which they are made.
IsNextCall(c) ==
    /\ calls[c].pc = "idle"
    /\ \A d \in Calls : d < c => calls[d].pc # "idle"

\* GuildNodeManager.create(): the registered queue of the guild, or a new one.
NodesCreate(g, leave) ==
    IF nodes[g] # NoQueue
    THEN [id |-> nodes[g], all |-> queues, reg |-> nodes]
    ELSE [id |-> Len(queues) + 1,
          all |-> Append(queues, [NewQueue(g) EXCEPT !.leaveOnEmpty = leave]),
          reg |-> [nodes EXCEPT ![g] = Len(queues) + 1]]

\* GuildQueue.addTrack(track | playlist): appends; a destroyed queue ignores it.
QueueAddTrack(qr, ts) ==
    IF qr.deleted THEN qr ELSE [qr EXCEPT !.tracks = @ \o ts]

\* GuildQueue.isPlaying()
IsPlaying(qr) == ~qr.deleted /\ qr.playing

\* GuildQueue.connect() returning: the queue is bound to the voice channel.
QueueConnect(qr, vc) ==
    IF qr.deleted THEN qr ELSE [qr EXCEPT !.channel = vc]

\* node.play(track, opts) returning. Without a track the head of the list is
\* taken; a transition (replay) re-enters the given track at the seek offset.
NodePlayTrack(qr, track) ==
    IF track # NoTrack THEN track
    ELSE IF qr.tracks # <<>> THEN Head(qr.tracks) ELSE NoTrack

NodePlayCanStart(qr, track) == qr.deleted \/ NodePlayTrack(qr, track) # NoTrack

NodePlayDone(qr, track, seek) ==
    IF qr.deleted THEN qr
    ELSE [qr EXCEPT !.currentTrack = NodePlayTrack(qr, track),
                    !.tracks = IF track = NoTrack THEN Tail(@) ELSE @,
                    !.playing = TRUE,
                    !.elapsed = seek]

\* tasksQueue.release() on the queue object
QueueRelease(qr) == [qr EXCEPT !.entries = AsyncQueueRelease(@)]

\* tasksQueue.acquire() on the queue object: entry ids increase
QueueAcquire(qr, c) ==
    [qr EXCEPT !.entries = AsyncQueueAcquire(@, c), !.nextId = @ + 1]

\* the bookkeeping of one release() performed by call c
Releasing(c) ==
    [calls[c] EXCEPT !.rel = @ + 1,
                     !.relOwn = @ /\ AsyncQueueResolved(queues[calls[c].q].entries, c)]

\* ------------------------------------------------------------ Player.play
\* PlayRejects taking a result that carries a playlist as a resolution
PlayRejectsUnlessPlaylist(vc, r) ==
    IF vc = TextChannel THEN "Expected a voice channel"
    ELSE IF IsEmpty(r) /\ r.pl = NoPlaylist THEN "No results found"
    ELSE Null

\* play() throws before touching the guild: not a voice channel, or no result.
PlayRejects(vc, r) ==
    IF vc = TextChannel THEN "Expected a voice channel"
    ELSE IF IsEmpty(r) THEN "No results found"
    ELSE Null

\* PlayTracksToAdd handing over every track of a result without a playlist
PlayTracksToAddAll(c, r) ==
    IF r.pl = NoPlaylist THEN TracksOfCall(c, r.n) ELSE TracksOfCall(c, r.pl)

\* PlayTracksToAdd handing over the first track of a playlist only
PlayTracksToAddFirst(c, r) == <<TrackOf(c, 1)>>

\* what play() hands to queue.addTrack
PlayTracksToAdd(c, r) ==
    IF r.pl = NoPlaylist THEN <<TrackOf(c, 1)>> ELSE TracksOfCall(c, r.pl)

\* return { track: result.tracks[0], extractor, searchResult: result, queue }
PlayReturns(c, r) == IF r.n = 0 THEN NoTrack ELSE TrackOf(c, 1)

\* play(channel, result): up to the await on the acquired entry
PlayCall(c, g, vc, r, leave) ==
    /\ IsNextCall(c)
    /\ IF PlayRejects(vc, r) # Null
       THEN /\ calls' = [calls EXCEPT ![c].kind = "play", ![c].pc = "rejected",
                                       ![c].vc = vc, ![c].result = r,
                                       ![c].err = PlayRejects(vc, r)]
            /\ UNCHANGED <<nodes, queues>>
       ELSE LET cr == NodesCreate(g, leave) IN
            /\ cr.id <= MaxQueues
            /\ nodes' = cr.reg
            /\ queues' = [cr.all EXCEPT ![cr.id] = QueueAcquire(@, c)]
            /\ calls' = [calls EXCEPT ![c].kind = "play", ![c].pc = "getTask",
                                       ![c].vc = vc, ![c].result = r,
                                       ![c].q = cr.id,
                                       ![c].id = cr.all[cr.id].nextId,
                                       ![c].waited = cr.all[cr.id].entries # <<>>]
    /\ UNCHANGED <<emitted, voiceVars, searchVars, auxVars>>

\* addTrack, then either await node.play() or fall through to finally/release
PlayEnqueue(c, q1) ==
    LET q2 == QueueAddTrack(q1, PlayTracksToAdd(c, calls[c].result)) IN
    IF ~IsPlaying(q2)
    THEN /\ queues' = [queues EXCEPT ![calls[c].q] = q2]
         /\ calls' = [calls EXCEPT ![c].pc = "nodePlay"]
    ELSE /\ queues' = [queues EXCEPT ![calls[c].q] = QueueRelease(q2)]
         /\ calls' = [calls EXCEPT ![c] = [Releasing(c) EXCEPT
                                              !.pc = "done", !.ok = TRUE,
                                              !.track = PlayReturns(c, calls[c].result)]]

\* PlayGuarded without the await on entry.getTask()
PlayGuardedNoWait(c) ==
    /\ calls[c].kind = "play" /\ calls[c].pc = "getTask"
    /\ IF queues[calls[c].q].channel = Null
       THEN /\ calls' = [calls EXCEPT ![c].pc = "connect"]
            /\ UNCHANGED queues
       ELSE PlayEnqueue(c, queues[calls[c].q])
    /\ UNCHANGED <<nodes, emitted, voiceVars, searchVars, auxVars>>

\* the entry resolves: the guarded section runs up to its first await
PlayGuarded(c) ==
    /\ calls[c].kind = "play" /\ calls[c].pc = "getTask"
    /\ AsyncQueueResolved(queues[calls[c].q].entries, c)
    /\ IF queues[calls[c].q].channel = Null
       THEN /\ calls' = [calls EXCEPT ![c].pc = "connect"]
            /\ UNCHANGED queues
       ELSE PlayEnqueue(c, queues[calls[c].q])
    /\ UNCHANGED <<nodes, emitted, voiceVars, searchVars, auxVars>>

\* queue.connect() resolves
PlayConnectReturn(c) ==
    /\ calls[c].kind = "play" /\ calls[c].pc = "connect"
    /\ PlayEnqueue(c, QueueConnect(queues[calls[c].q], calls[c].vc))
    /\ UNCHANGED <<nodes, emitted, voiceVars, searchVars, auxVars>>

\* PlayConnectThrow without the finally block
PlayConnectThrowNoRelease(c) ==
    /\ calls[c].kind = "play" /\ calls[c].pc = "connect"
    /\ calls' = [calls EXCEPT ![c].pc = "failed", ![c].err = "connect"]
    /\ UNCHANGED <<nodes, queues, emitted, voiceVars, searchVars, auxVars>>

\* queue.connect() rejects: finally releases, the error reaches the caller
PlayConnectThrow(c) ==
    /\ calls[c].kind = "play" /\ calls[c].pc = "connect"
    /\ queues' = [queues EXCEPT ![calls[c].q] = QueueRelease(@)]
    /\ calls' = [calls EXCEPT ![c] = [Releasing(c) EXCEPT !.pc = "failed", !.err = "connect"]]
    /\ UNCHANGED <<nodes, emitted, voiceVars, searchVars, auxVars>>

\* node.play() resolves: finally releases, play() returns
PlayNodePlayReturn(c) ==
    /\ calls[c].kind = "play" /\ calls[c].pc = "nodePlay"
    /\ NodePlayCanStart(queues[calls[c].q], NoTrack)
    /\ queues' = [queues EXCEPT ![calls[c].q] = QueueRelease(NodePlayDone(@, NoTrack, 0))]
    /\ calls' = [calls EXCEPT ![c] = [Releasing(c) EXCEPT
                                         !.pc = "done", !.ok = TRUE,
                                         !.track = PlayReturns(c, calls[c].result)]]
    /\ UNCHANGED <<nodes, emitted, voiceVars, searchVars, auxVars>>

\* PlayNodePlayThrow with the release in the try block, not in finally
PlayNodePlayThrowNoRelease(c) ==
    /\ calls[c].kind = "play" /\ calls[c].pc = "nodePlay"
    /\ calls' = [calls EXCEPT ![c].pc = "failed", ![c].err = "play"]
    /\ UNCHANGED <<nodes, queues, emitted, voiceVars, searchVars, auxVars>>

\* node.play() rejects: finally releases, the error reaches the caller
PlayNodePlayThrow(c) ==
    /\ calls[c].kind = "play" /\ calls[c].pc = "nodePlay"
    /\ queues' = [queues EXCEPT ![calls[c].q] = QueueRelease(@)]
    /\ calls' = [calls EXCEPT ![c] = [Releasing(c) EXCEPT !.pc = "failed", !.err = "play"]]
    /\ UNCHANGED <<nodes, emitted, voiceVars, searchVars, auxVars>>

\* ------------------------------------------------------- FFmpegFilterer
RECURSIVE Dedupe(_)
\* [...new Set(filters)]: first occurrences, in order
Dedupe(fs) ==
    IF fs = <<>> THEN <<>>
    ELSE LET init == Dedupe(SubSeq(fs, 1, Len(fs) - 1)) IN
         IF \E i \in 1..Len(init) : init[i] = fs[Len(fs)]
         THEN init ELSE Append(init, fs[Len(fs)])

Includes(fs, f) == \E i \in 1..Len(fs) : fs[i] = f

\* filters.some(ff => ff === 'nightcore' || ff === 'vaporwave')
HasPitch(fs) == Includes(fs, "nightcore") \/ Includes(fs, "vaporwave")

\* const ignoreFilters = this.filters.some(pitch) && !filters.some(pitch)
IgnoreFilters(cur, new) == HasPitch(cur) /\ ~HasPitch(new)

\* queue.node.getTimestamp(ignoreFilters)?.current.value || 0
GetTimestamp(qr, ignore) ==
    IF qr.currentTrack = NoTrack THEN 0
    ELSE IF ignore THEN 0 ELSE qr.elapsed

\* SetFiltersList taking every name of a record, whatever it is mapped to
SetFiltersListKeys(input) ==
    IF input.form = "bool" THEN (IF input.v THEN FilterNames ELSE <<>>)
    ELSE IF input.form = "list" THEN input.v
    ELSE [i \in 1..Len(input.v) |-> input.v[i][1]]

\* setFilters(filters): the three accepted input forms become a list
SetFiltersList(input) ==
    IF input.form = "bool" THEN (IF input.v THEN FilterNames ELSE <<>>)
    ELSE IF input.form = "list" THEN input.v
    ELSE LET on == SelectSeq(input.v, LAMBDA e : e[2] = TRUE) IN
         [i \in 1..Len(on) |-> on[i][1]]

\* ToggleList that never drops an enabled stage
ToggleListAppend(cur, fs) ==
    cur \o SelectSeq(fs, LAMBDA f : ~Includes(cur, f))

\* toggle(filters): drop the enabled ones among them, append the fresh ones
ToggleList(cur, fs) ==
    SelectSeq(cur, LAMBDA r : ~Includes(fs, r))
        \o SelectSeq(fs, LAMBDA f : ~Includes(cur, f))

\* #setFilters(filters) with triggerReplay(seekTime) up to its first await
SetFiltersSync(c, q, new, input) ==
    LET qr == queues[q]
        ignoreFilters == IgnoreFilters(qr.ffmpegFilters, new)
        seek == GetTimestamp(qr, ignoreFilters)
        q1 == [qr EXCEPT !.ffmpegFilters = Dedupe(new)]
        base == [calls[c] EXCEPT !.kind = "setter", !.q = q,
                                 !.input = input,
                                 !.next = q1.ffmpegFilters,
                                 !.ignore = ignoreFilters,
                                 !.prev = qr.ffmpegFilters,
                                 !.seek = seek,
                                 !.seekTrack = qr.currentTrack,
                                 !.same = (Dedupe(new) = qr.ffmpegFilters),
                                 !.held = (qr.entries # <<>>)]
    IN
    /\ IsNextCall(c)
    /\ IF q1.currentTrack = NoTrack
       THEN /\ queues' = [queues EXCEPT ![q] = q1]
            /\ calls' = [calls EXCEPT ![c] = [base EXCEPT !.pc = "emit"]]
       ELSE /\ queues' = [queues EXCEPT ![q] = QueueAcquire(q1, c)]
            /\ calls' = [calls EXCEPT ![c] = [base EXCEPT !.pc = "getTask",
                                                          !.id = qr.nextId,
                                                          !.waited = (qr.entries # <<>>)]]
    /\ UNCHANGED <<nodes, emitted, voiceVars, searchVars, auxVars>>

\* ffmpeg.setFilters(input)
SetFilters(c, q, input) == SetFiltersSync(c, q, SetFiltersList(input), input)

\* ffmpeg.toggle(filters)
Toggle(c, q, fs) ==
    SetFiltersSync(c, q, ToggleList(queues[q].ffmpegFilters, fs),
                   [form |-> "toggle", v |-> fs])

\* ffmpeg.setDefaults(ff): the list is stored as it is given
SetDefaults(q, ff) ==
    /\ ~queues[q].deleted
    /\ queues' = [queues EXCEPT ![q].ffmpegFilters = ff]
    /\ UNCHANGED <<nodes, calls, emitted, voiceVars, searchVars, auxVars>>

\* ReplayGuarded without the await on entry.getTask()
ReplayGuardedNoWait(c) ==
    /\ calls[c].kind = "setter" /\ calls[c].pc = "getTask"
    /\ calls' = [calls EXCEPT ![c].pc = "nodePlay",
                              ![c].replayed = queues[calls[c].q].currentTrack,
                              ![c].atElapsed = queues[calls[c].q].elapsed]
    /\ UNCHANGED <<nodes, queues, emitted, voiceVars, searchVars, auxVars>>

\* triggerReplay: the entry resolves, node.play(currentTrack, {seek, transitionMode})
ReplayGuarded(c) ==
    /\ calls[c].kind = "setter" /\ calls[c].pc = "getTask"
    /\ AsyncQueueResolved(queues[calls[c].q].entries, c)
    /\ calls' = [calls EXCEPT ![c].pc = "nodePlay",
                              ![c].replayed = queues[calls[c].q].currentTrack,
                              ![c].atElapsed = queues[calls[c].q].elapsed]
    /\ UNCHANGED <<nodes, queues, emitted, voiceVars, searchVars, auxVars>>

\* triggerReplay: node.play resolved; release(); return true
ReplayReturn(c) ==
    /\ calls[c].kind = "setter" /\ calls[c].pc = "nodePlay"
    /\ NodePlayCanStart(queues[calls[c].q], calls[c].replayed)
    /\ queues' = [queues EXCEPT ![calls[c].q] =
                     QueueRelease(NodePlayDone(@, calls[c].replayed, calls[c].seek))]
    /\ calls' = [calls EXCEPT ![c] = [Releasing(c) EXCEPT !.pc = "emit", !.ok = TRUE]]
    /\ UNCHANGED <<nodes, emitted, voiceVars, searchVars, auxVars>>

\* ReplayThrow without the catch block: the rejection reaches the caller
ReplayThrowRejects(c) ==
    /\ calls[c].kind = "setter" /\ calls[c].pc = "nodePlay"
    /\ queues' = [queues EXCEPT ![calls[c].q] = QueueRelease(@)]
    /\ calls' = [calls EXCEPT ![c] = [Releasing(c) EXCEPT !.pc = "failed", !.err = "play"]]
    /\ UNCHANGED <<nodes, emitted, voiceVars, searchVars, auxVars>>

\* triggerReplay: node.play rejected; catch { release(); return false }
ReplayThrow(c) ==
    /\ calls[c].kind = "setter" /\ calls[c].pc = "nodePlay"
    /\ queues' = [queues EXCEPT ![calls[c].q] = QueueRelease(@)]
    /\ calls' = [calls EXCEPT ![c] = [Releasing(c) EXCEPT !.pc = "emit", !.ok = FALSE]]
    /\ UNCHANGED <<nodes, emitted, voiceVars, searchVars, auxVars>>

\* .then(t => { events.emit('audioFiltersUpdate', queue, prev, filters.slice()) })
EmitFiltersUpdate(c) ==
    /\ calls[c].kind = "setter" /\ calls[c].pc = "emit"
    /\ emitted' = emitted \cup
           {[type |-> "audioFiltersUpdate", q |-> calls[c].q, by |-> c,
             old |-> calls[c].prev, new |-> queues[calls[c].q].ffmpegFilters,
             stale |-> queues[calls[c].q].deleted]}
    /\ calls' = [calls EXCEPT ![c].pc = "done"]
    /\ UNCHANGED <<nodes, queues, voiceVars, searchVars, auxVars>>

\* ------------------------------------------------------ playback progress
\* the stream of the current track advances by one unit of time
Tick(q) ==
    /\ queues[q].playing /\ ~queues[q].paused
    /\ queues[q].currentTrack # NoTrack
    /\ queues[q].elapsed < MaxElapsed
    /\ queues' = [queues EXCEPT ![q].elapsed = @ + 1]
    /\ UNCHANGED <<nodes, calls, emitted, voiceVars, searchVars, auxVars>>

\* repeat mode off: advance to the next track, or stop on an empty list
QueueAdvance(qr) ==
    IF qr.tracks = <<>>
    THEN [qr EXCEPT !.currentTrack = NoTrack, !.playing = FALSE, !.elapsed = 0]
    ELSE [qr EXCEPT !.currentTrack = Head(qr.tracks), !.tracks = Tail(qr.tracks),
                    !.elapsed = 0]

\* the current track ends naturally
TrackEnd(q) ==
    /\ queues[q].playing /\ queues[q].currentTrack # NoTrack
    /\ queues' = [queues EXCEPT ![q] = QueueAdvance(@)]
    /\ UNCHANGED <<nodes, calls, emitted, voiceVars, searchVars, auxVars>>

\* ------------------------------------------------- GuildQueue.delete()
\* The handlers below thread the state they change through a record:
\* qs (queues), ns (nodes), tm (timers), em (emitted), op (options),
\* ret (handler returned).
HState ==
    [qs |-> queues, ns |-> nodes, tm |-> timers, em |-> emitted, op |-> options,
     ret |-> FALSE]

\* queue.delete(): a queue is destroyed at most once; destruction unregisters
\* it, stops playback, leaves the channel and cancels its registered countdown.
QueueDelete(hs, q) ==
    IF hs.qs[q].deleted THEN hs
    ELSE [hs EXCEPT
            !.qs[q] = [@ EXCEPT !.deleted = TRUE, !.playing = FALSE,
                                !.currentTrack = NoTrack, !.tracks = <<>>,
                                !.channel = Null, !.elapsed = 0,
                                !.timeout = NoTimer],
            !.ns[hs.qs[q].guild] = NoQueue,
            !.tm.pending = {t \in @ : t.id # hs.qs[q].timeout}]

\* a caller invokes queue.delete() on a queue object it holds
DeleteQueue(q) ==
    LET hs == QueueDelete(HState, q) IN
    /\ ~queues[q].deleted
    /\ queues' = hs.qs /\ nodes' = hs.ns /\ timers' = hs.tm
    /\ UNCHANGED <<calls, emitted, voice, options, searchVars, auxVars>>

\* ------------------------------------------------ Player._handleVoiceState
\* Util.isVoiceEmpty(channel): no non-bot member is in the channel
IsVoiceEmpty(v, ch) == ch # Null /\ \A h \in Humans : v[h].ch # ch

\* setTimeout(cb, cooldown); queue.timeouts.set(`empty_${guild}`, timeout)
ArmTimer(hs, q, kind) ==
    [hs EXCEPT !.tm = [pending |-> @.pending \cup
                           {[id |-> @.armed + 1, q |-> q, kind |-> kind, old |-> FALSE]},
                       armed |-> @.armed + 1, fired |-> @.fired],
               !.qs[q].timeout = hs.tm.armed + 1]

\* clearTimeout(emptyTimeout); queue.timeouts.delete(`empty_${guild}`)
ClearTimer(hs, q) ==
    [hs EXCEPT !.tm.pending = {t \in @ : t.id # hs.qs[q].timeout},
               !.qs[q].timeout = NoTimer]

\* if (!channelEmpty && emptyTimeout) { clearTimeout; delete }
ClearIfOccupied(hs, q, v) ==
    IF ~IsVoiceEmpty(v, hs.qs[q].channel) /\ hs.qs[q].timeout # NoTimer
    THEN ClearTimer(hs, q) ELSE hs

\* events.emit('disconnect', queue): n counts the 'disconnect' events of q
Disconnect(em, q) ==
    [type |-> "disconnect", q |-> q,
     n |-> 1 + Cardinality({e \in em : e.type = "disconnect" /\ e.q = q})]

\* BotDisconnected emitting 'disconnect' without deleting the queue
BotDisconnectedKeepsQueue(hs, q, m, old, new) ==
    IF old.ch # Null /\ new.ch = Null /\ m = Me
    THEN [hs EXCEPT !.em = @ \cup {Disconnect(@, q)}, !.ret = TRUE]
    ELSE hs

\* the bot was disconnected: delete the queue (a throw is swallowed), emit
\* 'disconnect', return
BotDisconnected(hs, q, m, old, new) ==
    IF old.ch # Null /\ new.ch = Null /\ m = Me
    THEN [QueueDelete(hs, q) EXCEPT !.em = @ \cup {Disconnect(@, q)}, !.ret = TRUE]
    ELSE hs

\* the bot joined: server mute or stage suppress decides the paused state
BotJoinedPause(hs, q, m, old, new) ==
    IF hs.ret \/ ~(old.ch = Null /\ new.ch # Null /\ m = Me) THEN hs
    ELSE IF old.mute # new.mute
         THEN [hs EXCEPT !.qs[q].paused = new.mute]
    ELSE IF new.ch \in StageChannels /\ old.suppress # new.suppress
         THEN [hs EXCEPT !.qs[q].paused = new.suppress]
    ELSE hs

\* somebody left the queue's channel: arm the countdown when it is now empty
MemberLeft(hs, q, v, old, new) ==
    IF hs.ret \/ ~(new.ch = Null /\ old.ch = hs.qs[q].channel) THEN hs
    ELSE IF ~IsVoiceEmpty(v, hs.qs[q].channel) THEN [hs EXCEPT !.ret = TRUE]
    ELSE ArmTimer(hs, q, "leave")

\* somebody joined the queue's channel: cancel the countdown when occupied
MemberJoined(hs, q, v, new) ==
    IF hs.ret \/ ~(new.ch # Null /\ new.ch = hs.qs[q].channel) THEN hs
    ELSE ClearIfOccupied(hs, q, v)

\* the bot itself moved to another channel
BotMoved(hs, q, v, new) ==
    LET h1 == [hs EXCEPT !.qs[q].channel = new.ch] IN
    IF ~IsVoiceEmpty(v, h1.qs[q].channel) /\ h1.qs[q].timeout # NoTimer
    THEN ClearTimer(h1, q)
    ELSE ArmTimer(h1, q, "moveMe")

\* another member moved between channels
OtherMoved(hs, q, v, new) ==
    IF new.ch # hs.qs[q].channel
    THEN IF ~IsVoiceEmpty(v, hs.qs[q].channel) THEN [hs EXCEPT !.ret = TRUE]
         ELSE IF hs.qs[q].timeout # NoTimer THEN [hs EXCEPT !.ret = TRUE]
         ELSE ArmTimer(hs, q, "moveOther")
    ELSE ClearIfOccupied(hs, q, v)

MemberMoved(hs, q, m, v, old, new) ==
    IF hs.ret \/ ~(old.ch # Null /\ new.ch # Null /\ old.ch # new.ch) THEN hs
    ELSE IF m = Me THEN BotMoved(hs, q, v, new)
    ELSE OtherMoved(hs, q, v, new)

\* a non-bot member is (again) in the queue's channel: every countdown that
\* is pending now was armed before this rejoin
MarkRejoin(hs, q, m, new) ==
    IF m \in Humans /\ new.ch # Null /\ new.ch = hs.qs[q].channel
    THEN [hs EXCEPT !.tm.pending =
             {IF t.q = q THEN [t EXCEPT !.old = TRUE] ELSE t : t \in @}]
    ELSE hs

\* the default reconciliation, lines 225-302
DefaultVoiceState(hs, q, m, v, old, new) ==
    LET h1 == BotDisconnected(hs, q, m, old, new)
        h2 == BotJoinedPause(h1, q, m, old, new)
        h3 == MemberLeft(h2, q, v, old, new)
        h4 == MemberJoined(h3, q, v, new)
        h5 == MemberMoved(h4, q, m, v, old, new)
    IN MarkRejoin(h5, q, m, new)

\* player.events.on('voiceStateUpdate', handler): a caller-supplied handler
OnVoiceStateUpdate ==
    /\ ~options.listener
    /\ options' = [options EXCEPT !.listener = TRUE]
    /\ UNCHANGED <<nodes, queues, calls, emitted, voice, timers, searchVars, auxVars>>

\* player.lockVoiceStateHandler()
LockVoiceStateHandler ==
    /\ options' = [options EXCEPT !.lockVoiceStateHandler = TRUE]
    /\ UNCHANGED <<nodes, queues, calls, emitted, voice, timers, searchVars, auxVars>>

\* player.unlockVoiceStateHandler()
UnlockVoiceStateHandler ==
    /\ options' = [options EXCEPT !.lockVoiceStateHandler = FALSE]
    /\ UNCHANGED <<nodes, queues, calls, emitted, voice, timers, searchVars, auxVars>>

\* events.emit('voiceStateUpdate', queue, oldState, newState): the caller's
\* handler, if there is one, runs and sees the queue as it is at that point
EmitVoiceStateUpdate(hs, q, m, old, new) ==
    IF options.listener
    THEN [hs EXCEPT
             !.em = @ \cup {[type |-> "voiceStateUpdate", q |-> q,
                             locked |-> options.lockVoiceStateHandler]},
             !.op.handled = [m |-> m, from |-> old.ch, to |-> new.ch,
                             deleted |-> hs.qs[q].deleted]]
    ELSE hs

\* HandlerReturns running the default reconciliation in every case
HandlerNeverReturns(hs, q, m, v, old, new) ==
    DefaultVoiceState(EmitVoiceStateUpdate(hs, q, m, old, new), q, m, v, old, new)

\* if (wasHandled && !this.options.lockVoiceStateHandler) return;
HandlerReturns(hs, q, m, v, old, new) ==
    LET h0 == EmitVoiceStateUpdate(hs, q, m, old, new) IN
    IF options.listener /\ ~options.lockVoiceStateHandler THEN h0
    ELSE DefaultVoiceState(h0, q, m, v, old, new)

\* _handleVoiceState(oldState, newState) for member m of guild g; the member
\* cache already holds the new state when the handler runs
HandleVoiceState(g, m, new) ==
    LET old == voice[m]
        v == [voice EXCEPT ![m] = new]
        q == nodes[g]
        skip == q = NoQueue \/ queues[q].channel = Null
        hs == IF skip THEN HState ELSE HandlerReturns(HState, q, m, v, old, new)
    IN
    /\ new # old
    /\ hs.tm.armed <= MaxTimers
    /\ voice' = v
    /\ queues' = hs.qs /\ nodes' = hs.ns /\ timers' = hs.tm /\ emitted' = hs.em
    /\ options' = hs.op
    /\ UNCHANGED <<calls, searchVars, auxVars>>

\* the body of an empty-channel countdown callback
TimerBody(hs, t) ==
    LET qr == hs.qs[t.q]
        occupied == ~IsVoiceEmpty(voice, qr.channel)
        back == IF t.kind = "moveMe" THEN qr.channel # Null /\ occupied ELSE occupied
    IN
    IF back THEN hs
    ELSE IF hs.ns[qr.guild] = NoQueue THEN hs
    ELSE [(IF qr.leaveOnEmpty THEN QueueDelete(hs, t.q) ELSE hs) EXCEPT
             !.em = @ \cup {[type |-> "emptyChannel", q |-> t.q, old |-> t.old,
                             stale |-> qr.deleted, left |-> qr.leaveOnEmpty]}]

\* a countdown elapses and its callback runs
TimerFire(t) ==
    LET h0 == [HState EXCEPT !.tm.pending = @ \ {t}, !.tm.fired = t.id]
        hs == TimerBody(h0, t)
    IN
    /\ t \in timers.pending
    /\ queues' = hs.qs /\ nodes' = hs.ns /\ timers' = hs.tm /\ emitted' = hs.em
    /\ UNCHANGED <<calls, voice, options, searchVars, auxVars>>

\* ------------------------------------------ filter graph of one queue
\* the values the stages of a live dispatcher can be given
BandSettings == {<<>>, <<0, 1>>}

BiquadSettings == {Null, "LowPass"}

PCMFilterSettings == {<<>>, <<"8D">>}

VolumeSettings == {0, 50}

SampleRateSettings == {0, 44100}

Dispatchers ==
    [live : {TRUE}, bandMultipliers : BandSettings, biquad : BiquadSettings,
     filters : PCMFilterSettings, volume : VolumeSettings,
     targetSampleRate : SampleRateSettings, sampleRate : {48000}]

\* the dispatcher of a new stream is built from the cached stage values
DispatcherOf(cache) ==
    [live |-> TRUE,
     bandMultipliers |-> [i \in 1..Len(cache.equalizer) |-> cache.equalizer[i].gain],
     biquad |-> cache.biquad, filters |-> cache.filters, volume |-> cache.volume,
     targetSampleRate |-> IF cache.sampleRate = -1 THEN 0 ELSE cache.sampleRate,
     sampleRate |-> 48000]

\* the cache records the stage values of the live dispatcher
CacheOf(d) ==
    [biquad |-> d.biquad, equalizer |-> Bands(d.bandMultipliers),
     filters |-> d.filters, volume |-> d.volume,
     sampleRate |-> IF d.targetSampleRate = 0 THEN -1 ELSE d.targetSampleRate]

\* a stream starts on the idle queue
GraphStreamStart ==
    /\ ~graph.dispatcher.live
    /\ graph' = [graph EXCEPT !.dispatcher = DispatcherOf(graph.cache)]
    /\ UNCHANGED <<nodes, queues, calls, emitted, voiceVars, searchVars, apple>>

\* a stage of the live dispatcher is set (setVolume, setEQ, setFilters, ...)
GraphSetStages(d) ==
    /\ graph.dispatcher.live /\ d # graph.dispatcher
    /\ graph' = [graph EXCEPT !.dispatcher = d, !.cache = CacheOf(d)]
    /\ UNCHANGED <<nodes, queues, calls, emitted, voiceVars, searchVars, apple>>

\* the stream ends: the queue is idle, the cache keeps the last values
GraphStreamEnd ==
    /\ graph.dispatcher.live
    /\ graph' = [graph EXCEPT !.dispatcher = NoDispatcher]
    /\ UNCHANGED <<nodes, queues, calls, emitted, voiceVars, searchVars, apple>>

\* queue.filters.graph.dump()
GraphDump ==
    /\ graph' = [graph EXCEPT !.dumped =
                     [taken |-> TRUE, out |-> Dump(graph.ffmpeg, graph.dispatcher),
                      dispatcher |-> graph.dispatcher, cache |-> graph.cache]]
    /\ UNCHANGED <<nodes, queues, calls, emitted, voiceVars, searchVars, apple>>

\* ------------------------------------- AppleMusicExtractor life cycle
\* extractors.register(AppleMusicExtractor, options): the first activate()
\* is scheduled
AppleRegister ==
    /\ apple.started = 0 /\ apple.queued = 0
    /\ apple' = [apple EXCEPT !.queued = 1]
    /\ UNCHANGED <<nodes, queues, calls, emitted, voiceVars, searchVars, graph>>

\* reconfigure(options): this.options = options; await this.deactivate();
\* deactivate() does nothing, activate() follows
AppleReconfigure(createStream) ==
    /\ apple.started + apple.queued < MaxActivations
    /\ apple.started + apple.queued > 0
    /\ apple' = [apple EXCEPT !.createStream = createStream, !.queued = @ + 1]
    /\ UNCHANGED <<nodes, queues, calls, emitted, voiceVars, searchVars, graph>>

\* activate() up to its return or to the await on loadYtdl()
AppleActivate ==
    /\ apple.queued > 0
    /\ apple' = IF apple.createStream
                THEN [apple EXCEPT !.queued = @ - 1, !.started = @ + 1,
                                   !.isYtdl = FALSE, !.stream = "createStream",
                                   !.completed = @ + 1]
                ELSE [apple EXCEPT !.queued = @ - 1, !.started = @ + 1,
                                   !.loading = @ + 1]
    /\ UNCHANGED <<nodes, queues, calls, emitted, voiceVars, searchVars, graph>>

\* loadYtdl() resolves: this._stream = lib.stream; this._isYtdl = true
AppleLoadYtdlReturn ==
    /\ apple.loading > 0
    /\ apple' = [apple EXCEPT !.loading = @ - 1, !.stream = "ytdl",
                              !.isYtdl = TRUE, !.completed = @ + 1]
    /\ UNCHANGED <<nodes, queues, calls, emitted, voiceVars, searchVars, graph>>

\* loadYtdl() rejects (no streaming library): activate() rejects
AppleLoadYtdlThrow ==
    /\ apple.loading > 0
    /\ apple' = [apple EXCEPT !.loading = @ - 1]
    /\ UNCHANGED <<nodes, queues, calls, emitted, voiceVars, searchVars, graph>>

\* StreamOutcomes without the check of this._stream
StreamOutcomesUnguarded(x, validUrl) ==
    IF x.isYtdl /\ ~validUrl
    THEN {"Failed to fetch resources for ytdl streaming",
          IF x.stream = NoStream THEN "undefined is not a function" ELSE x.stream}
    ELSE {IF x.stream = NoStream THEN "undefined is not a function" ELSE x.stream}

\* stream(info): what the call does, for a track with or without a valid
\* YouTube url; the search of the ytdl branch may find nothing
StreamOutcomes(x, validUrl) ==
    IF x.stream = NoStream THEN {"Could not initialize streaming api"}
    ELSE IF x.isYtdl /\ ~validUrl
         THEN {"Failed to fetch resources for ytdl streaming", x.stream}
    ELSE {x.stream}

\* extractor.stream(track)
AppleStream(validUrl) ==
    /\ \E out \in StreamOutcomes(apple, validUrl) :
          apple' = [apple EXCEPT !.streamed = @ \cup
                       {[activated |-> apple.completed > 0, out |-> out]}]
    /\ UNCHANGED <<nodes, queues, calls, emitted, voiceVars, searchVars, graph>>

\* ---------------------------------------------------------- specification
Single == [n |-> 1, pl |-> NoPlaylist]

\* inputs of the concurrency specifications
CoreResults == {Single, [n |-> 2, pl |-> 2]}

CoreFilterInputs ==
    {[form |-> "list", v |-> <<>>], [form |-> "list", v |-> <<"bassboost">>]}

\* one step of a play() invocation that is past its first await
PlayStep(c) ==
    \/ PlayGuarded(c)
    \/ PlayConnectReturn(c)
    \/ PlayConnectThrow(c)
    \/ PlayNodePlayReturn(c)
    \/ PlayNodePlayThrow(c)

\* one step of an invocation that is past its first await
CallStep(c) ==
    \/ PlayStep(c)
    \/ ReplayGuarded(c)
    \/ ReplayReturn(c)
    \/ ReplayThrow(c)
    \/ EmitFiltersUpdate(c)

\* concurrent play() calls and filter setters on one guild
Next ==
    \/ \E c \in Calls, g \in CoreGuilds, r \in CoreResults :
          PlayCall(c, g, "vc1", r, TRUE)
    \/ \E c \in Calls, q \in DOMAIN queues, input \in CoreFilterInputs :
          SetFilters(c, q, input)
    \/ \E c \in Calls, q \in DOMAIN queues : Toggle(c, q, <<"bassboost">>)
    \/ \E c \in Calls : CallStep(c)
    \/ \E q \in DOMAIN queues : TrackEnd(q)

Spec == Init /\ [][Next]_vars

\* the same, with the playback clock running
NextSeek ==
    \/ \E c \in Calls, g \in CoreGuilds : PlayCall(c, g, "vc1", Single, TRUE)
    \/ \E c \in Calls, q \in DOMAIN queues :
          SetFilters(c, q, [form |-> "list", v |-> <<"bassboost">>])
    \/ \E c \in Calls : CallStep(c)
    \/ \E q \in DOMAIN queues : Tick(q)
    \/ \E q \in DOMAIN queues : TrackEnd(q)

SpecSeek == Init /\ [][NextSeek]_vars

\* play() over every kind of channel and search result
NextPlay ==
    \/ \E c \in Calls, g \in CoreGuilds, vc \in {"vc1", TextChannel}, r \in Results :
          PlayCall(c, g, vc, r, TRUE)
    \/ \E c \in Calls : PlayStep(c)

SpecPlay == Init /\ [][NextPlay]_vars

\* the core under the scheduling the event loop guarantees: every pending
\* await (getTask, connect, node.play) and every then-callback is eventually run
NextLive ==
    \/ \E c \in Calls, g \in CoreGuilds : PlayCall(c, g, "vc1", Single, TRUE)
    \/ \E c \in Calls, q \in DOMAIN queues :
          SetFilters(c, q, [form |-> "list", v |-> <<"bassboost">>])
    \/ \E c \in Calls : CallStep(c)
    \/ \E q \in DOMAIN queues : TrackEnd(q)

SpecLive == Init /\ [][NextLive]_vars /\ \A c \in Calls : WF_vars(CallStep(c))

\* the core with queue deletion and re-creation
NextDel ==
    \/ \E c \in Calls, g \in CoreGuilds : PlayCall(c, g, "vc1", Single, TRUE)
    \/ \E c \in Calls, q \in DOMAIN queues :
          SetFilters(c, q, [form |-> "list", v |-> <<"bassboost">>])
    \/ \E c \in Calls : CallStep(c)
    \/ \E q \in DOMAIN queues : DeleteQueue(q)

SpecDel == Init /\ [][NextDel]_vars

\* a step of an invocation on guild g that is past its first await
StepOn(g, c) ==
    /\ calls[c].q # NoQueue
    /\ queues[calls[c].q].guild = g
    /\ CallStep(c)

\* two guilds: the awaits of the invocations on guild gB always come back,
\* those of the invocations on guild gA may stay pending forever
NextGuilds ==
    \/ \E c \in Calls, g \in Guilds : PlayCall(c, g, "vc1", Single, TRUE)
    \/ \E c \in Calls, q \in DOMAIN queues :
          SetFilters(c, q, [form |-> "list", v |-> <<"bassboost">>])
    \/ \E c \in Calls : CallStep(c)

SpecGuilds ==
    Init /\ [][NextGuilds]_vars /\ \A c \in Calls : WF_vars(StepOn("gB", c))

\* the filter setters over every input form, called one after the other with
\* the playback clock running
FilterInputs ==
    {[form |-> "bool", v |-> TRUE], [form |-> "bool", v |-> FALSE],
     [form |-> "list", v |-> <<"nightcore">>],
     [form |-> "list", v |-> <<"bassboost", "vaporwave", "bassboost">>],
     [form |-> "record", v |-> <<<<"bassboost", TRUE>>, <<"nightcore", FALSE>>>>],
     [form |-> "record", v |-> <<<<"vaporwave", TRUE>>, <<"nightcore", TRUE>>>>]}

ToggleInputs == {<<"bassboost">>, <<"nightcore">>}

\* no invocation is in flight
Quiet == \A c \in Calls : calls[c].pc \in {"idle", "done", "failed", "rejected"}

NextFilters ==
    \/ \E g \in CoreGuilds : PlayCall(1, g, "vc1", Single, TRUE)
    \/ \E c \in Calls, q \in DOMAIN queues, input \in FilterInputs :
          Quiet /\ SetFilters(c, q, input)
    \/ \E c \in Calls, q \in DOMAIN queues, fs \in ToggleInputs :
          Quiet /\ Toggle(c, q, fs)
    \/ \E c \in Calls : CallStep(c)
    \/ \E q \in DOMAIN queues : Quiet /\ Tick(q)

SpecFilters == Init /\ [][NextFilters]_vars

\* the lists given to setDefaults
DefaultInputs == {<<>>, <<"nightcore">>, <<"bassboost", "bassboost">>}

\* toggle over lists that repeat a stage, from selections that do too, the
\* calls made one after the other
ToggleLists ==
    {<<"bassboost">>, <<"nightcore", "nightcore">>, <<"bassboost", "vaporwave">>}

NextToggle ==
    \/ \E g \in CoreGuilds : PlayCall(1, g, "vc1", Single, TRUE)
    \/ \E c \in Calls, q \in DOMAIN queues, fs \in ToggleLists :
          Quiet /\ Toggle(c, q, fs)
    \/ \E q \in DOMAIN queues, ff \in DefaultInputs : Quiet /\ SetDefaults(q, ff)
    \/ \E c \in Calls : CallStep(c)

SpecToggle == Init /\ [][NextToggle]_vars

\* the setters and setDefaults over lists that repeat a stage
NextDefaults ==
    \/ \E g \in CoreGuilds : PlayCall(1, g, "vc1", Single, TRUE)
    \/ \E c \in Calls, q \in DOMAIN queues, input \in FilterInputs :
          Quiet /\ SetFilters(c, q, input)
    \/ \E c \in Calls, q \in DOMAIN queues, fs \in ToggleInputs :
          Quiet /\ Toggle(c, q, fs)
    \/ \E q \in DOMAIN queues, ff \in DefaultInputs : Quiet /\ SetDefaults(q, ff)
    \/ \E c \in Calls : CallStep(c)

SpecDefaults == Init /\ [][NextDefaults]_vars

\* an AppleMusicExtractor constructed with or without options.createStream
InitStream ==
    /\ InitCore
    /\ player = NewPlayer(<<"apple", "other">>, {}, TRUE)
    /\ graph = NewFilters(NoVolume, <<>>)
    /\ apple \in {NewExtractor(cs) : cs \in BOOLEAN}

NextStream ==
    \/ AppleRegister
    \/ \E cs \in BOOLEAN : AppleReconfigure(cs)
    \/ AppleActivate
    \/ AppleLoadYtdlReturn
    \/ AppleLoadYtdlThrow
    \/ \E validUrl \in BOOLEAN : AppleStream(validUrl)

SpecStream == InitStream /\ [][NextStream]_vars

\* the filter graph of a queue created with or without options.volume
InitDump ==
    /\ InitCore
    /\ player = NewPlayer(<<"apple", "other">>, {}, TRUE)
    /\ graph \in {NewFilters(v, f) : v \in {NoVolume, 30}, f \in {<<>>, <<"bassboost">>}}
    /\ apple = NewExtractor(FALSE)

NextDump ==
    \/ GraphStreamStart
    \/ \E d \in Dispatchers : GraphSetStages(d)
    \/ GraphStreamEnd
    \/ GraphDump

SpecDump == InitDump /\ [][NextDump]_vars

\* voice-state events and empty-channel countdowns
\* the voice states a member of guild g can get next: the bot enters voice
\* only through the connection of the guild's queue
VoiceStates(g, m) ==
    {s \in [ch : Channels \cup {Null}, mute : {FALSE}, suppress : {FALSE}] :
        (m = Me /\ voice[Me].ch = Null /\ s.ch # Null)
            => (nodes[g] # NoQueue /\ s.ch = queues[nodes[g]].channel)}

NextVoice ==
    \/ \E g \in CoreGuilds : PlayCall(1, g, "vc1", Single, TRUE)
    \/ PlayStep(1)
    \/ \E g \in CoreGuilds, m \in Members :
          \E new \in VoiceStates(g, m) : HandleVoiceState(g, m, new)
    \/ \E t \in timers.pending : TimerFire(t)

SpecVoice == Init /\ [][NextVoice]_vars

\* voice-state events with a caller-supplied handler and the handler lock;
\* the bot's own state carries its server mute and its stage suppress flag
SessionMembers == {Me} \cup Humans

SessionStates(g, m) ==
    {s \in [ch : {"vc1", Null}, mute : BOOLEAN, suppress : {FALSE}] :
        /\ m # Me => ~s.mute
        /\ (m = Me /\ voice[Me].ch = Null /\ s.ch # Null)
               => (nodes[g] # NoQueue /\ s.ch = queues[nodes[g]].channel)}

NextHandler ==
    \/ \E g \in CoreGuilds : PlayCall(1, g, "vc1", Single, TRUE)
    \/ PlayStep(1)
    \/ \E g \in CoreGuilds, m \in SessionMembers :
          \E new \in SessionStates(g, m) : HandleVoiceState(g, m, new)
    \/ \E t \in timers.pending : TimerFire(t)
    \/ OnVoiceStateUpdate
    \/ LockVoiceStateHandler
    \/ UnlockVoiceStateHandler

SpecHandler == Init /\ [][NextHandler]_vars

\* voice-state events in which the bot's server mute and stage suppress flag
\* change, on a queue connected to a voice or to a stage channel
MuteStates(g, m) ==
    {s \in [ch : Channels \cup {Null}, mute : BOOLEAN, suppress : BOOLEAN] :
        /\ m # Me => (~s.mute /\ ~s.suppress)
        /\ (m = Me /\ voice[Me].ch = Null /\ s.ch # Null)
               => (nodes[g] # NoQueue /\ s.ch = queues[nodes[g]].channel)}

NextMute ==
    \/ \E g \in CoreGuilds, vc \in Channels : PlayCall(1, g, vc, Single, TRUE)
    \/ PlayStep(1)
    \/ \E g \in CoreGuilds, m \in SessionMembers :
          \E new \in MuteStates(g, m) : HandleVoiceState(g, m, new)
    \/ \E t \in timers.pending : TimerFire(t)

SpecMute == Init /\ [][NextMute]_vars

\* countdowns on queues created with and without leaveOnEmpty, the guild's
\* queue being created again after a deletion
TimerCalls == {1, 2}

NextTimer ==
    \/ \E c \in TimerCalls, g \in CoreGuilds, leave \in BOOLEAN :
          PlayCall(c, g, "vc1", Single, leave)
    \/ \E c \in TimerCalls : PlayStep(c)
    \/ \E g \in CoreGuilds, m \in SessionMembers :
          \E new \in VoiceStates(g, m) : HandleVoiceState(g, m, new)
    \/ \E t \in timers.pending : TimerFire(t)

SpecTimer == Init /\ [][NextTimer]_vars

\* ---------------------------------------------------------- Player.search
\* a query: a string, a Track, a Playlist or an array of Tracks
StringQuery(v) ==
    [kind |-> "string", v |-> v, qt |-> "", n |-> 0, pl |-> NoPlaylist, ext |-> Null]

\* a Track with its queryType, its playlist (if any) and its extractor
TrackQuery(qt, pl, x) ==
    [kind |-> "track", v |-> "title", qt |-> qt, n |-> 1, pl |-> pl, ext |-> x]

\* a Playlist of n tracks resolved by extractor x
PlaylistQuery(n, x) ==
    [kind |-> "playlist", v |-> "title", qt |-> "", n |-> n, pl |-> n, ext |-> x]

\* an array holding n Tracks
ArrayQuery(n) ==
    [kind |-> "array", v |-> "@@#%{{UserLoadedContent}}%#@@", qt |-> "", n |-> n,
     pl |-> NoPlaylist, ext |-> Null]

\* options.searchEngine left undefined
NoEngine == QT("unset")

\* options.blockExtractors: given or left undefined
BlockList(ids) == [given |-> TRUE, ids |-> ids]

NoBlockList == [given |-> FALSE, ids |-> {}]

\* an ExtractorInfo / SearchResult without tracks and without playlist
Empty == [n |-> 0, pl |-> NoPlaylist]

\* ExtractorExecutionContext.get(identifier)
ExtractorsGet(id) ==
    IF \E k \in 1..Len(player.extractors) : player.extractors[k] = id
    THEN id ELSE Null

\* QueryCache.resolve({ query, queryType, requestedBy })
QueryCacheResolve(data, q, type) ==
    IF \E r \in data : r.query = q /\ r.type = type
    THEN CHOOSE r \in data : r.query = q /\ r.type = type
    ELSE NoResult

\* QueryCache.addData(result)
QueryCacheAddData(data, r) ==
    {e \in data : ~(e.query = r.query /\ e.type = r.type)} \cup {r}

\* options.blockExtractors?.includes(ext.identifier)
Blocked(s, x) == x \in s.block

\* search() returns r
SearchReturn(s, r) == [s EXCEPT !.pc = "done", !.result = r]

\* a result was built: it goes to the cache unless ignoreCache, then returns
SearchFound(s, r) ==
    IF s.ignoreCache THEN SearchReturn(s, r)
    ELSE [s EXCEPT !.pc = "addData", !.result = r]

\* extractors.run() of the first pass ends without a validating extractor
Run1(s) ==
    IF s.i > Len(player.extractors)
    THEN SearchReturn(s, SearchResult(s.query, s.type, Empty, Null))
    ELSE s

\* extractors.run() of the fallback pass ends without a result: the empty
\* SearchResult carries the extractor run() tried last
Run2(s) ==
    IF s.i > Len(player.extractors)
    THEN SearchReturn(s, SearchResult(s.query, s.type, Empty, s.last))
    ELSE s

\* search(query, options) up to its first await, options.fallbackSearchEngine given
SearchStartWith(base, q, eng, fallback) ==
    LET engine == IF eng = NoEngine THEN AUTO ELSE eng
        type == IF engine = AUTO THEN QueryResolverResolve(q.v, fallback) ELSE engine
        s == [base EXCEPT !.engine = engine, !.type = type]
        x == ExtractorsGet(Substring4(engine))
    IN
    IF q.kind = "track"
    THEN SearchReturn(base, SearchResult(q.v, QT(q.qt), [n |-> 1, pl |-> q.pl], q.ext))
    ELSE IF q.kind = "playlist"
    THEN SearchReturn(base, SearchResult(q.v, AUTO, [n |-> q.n, pl |-> q.n],
                                         IF q.n > 0 THEN q.ext ELSE Null))
    ELSE IF q.kind = "array"
    THEN SearchReturn(base, SearchResult(q.v, AUTO, [n |-> q.n, pl |-> NoPlaylist], Null))
    ELSE IF StartsWithExt(engine)
    THEN IF x = Null
         THEN SearchReturn(s, SearchResult(q.v, type, Empty, Null))
         ELSE [s EXCEPT !.pc = "handle", !.ext = x]
    ELSE IF ~s.ignoreCache THEN [s EXCEPT !.pc = "cache"]
    ELSE Run1([s EXCEPT !.pc = "run1", !.i = 1])

\* options.fallbackSearchEngine ??= QueryType.AUTO_SEARCH
SearchStart(base, q, eng) == SearchStartWith(base, q, eng, AUTO_SEARCH)

\* search(query, { searchEngine, fallbackSearchEngine, ignoreCache, blockExtractors })
SearchCallWith(q, eng, fallback, ignoreCache, block) ==
    LET prev == IF search.pc = "done"
                THEN [kind |-> search.kind, query |-> search.query,
                      engine |-> search.engine, type |-> search.type,
                      ignoreCache |-> search.ignoreCache, result |-> search.result]
                ELSE NoPrev
        base == [IdleSearch EXCEPT
                    !.count = search.count + 1, !.kind = q.kind, !.query = q.v,
                    !.ignoreCache = ignoreCache, !.prev = prev,
                    !.block = IF block.given THEN block.ids ELSE player.blockExtractors]
    IN
    /\ search.pc \in {"idle", "done"}
    /\ search.count < MaxSearches
    /\ search' = SearchStartWith(base, q, eng, fallback)
    /\ UNCHANGED <<nodes, queues, calls, emitted, voiceVars, player, auxVars>>

\* search(query, options) with options.fallbackSearchEngine left undefined
SearchCall(q, eng, ignoreCache, block) ==
    SearchCallWith(q, eng, AUTO_SEARCH, ignoreCache, block)

\* SearchCacheResolve going on to the extractors also after a hit
SearchCacheResolveNoReturn ==
    /\ search.pc = "cache"
    /\ search' = Run1([search EXCEPT !.pc = "run1", !.i = 1,
                          !.reads = IF player.queryCache.enabled THEN @ + 1 ELSE @])
    /\ UNCHANGED <<nodes, queues, calls, emitted, voiceVars, player, auxVars>>

\* await this.queryCache?.resolve(...): a hit with tracks is returned
SearchCacheResolve ==
    LET on == player.queryCache.enabled
        res == IF on THEN QueryCacheResolve(player.queryCache.data, search.query, search.type)
               ELSE NoResult
        s == [search EXCEPT !.reads = IF on THEN @ + 1 ELSE @]
    IN
    /\ search.pc = "cache"
    /\ search' = IF HasTracks(res)
                 THEN SearchReturn([s EXCEPT !.hit = TRUE], res)
                 ELSE Run1([s EXCEPT !.pc = "run1", !.i = 1])
    /\ UNCHANGED <<nodes, queues, calls, emitted, voiceVars, player, auxVars>>

\* SearchRunValidate selecting the first extractor that is not blocked,
\* whatever its validate returns
SearchRunValidateFirst ==
    LET x == player.extractors[search.i] IN
    /\ search.pc = "run1"
    /\ IF Blocked(search, x)
       THEN search' = Run1([search EXCEPT !.i = @ + 1])
       ELSE \E out \in ValidateOutcomes(x, search.type) :
              search' = [search EXCEPT !.pc = "handle", !.ext = x, !.vlog = @ \cup
                            {[x |-> x, pass |-> 1, type |-> search.type, out |-> out]}]
    /\ UNCHANGED <<nodes, queues, calls, emitted, voiceVars, player, auxVars>>

\* one iteration of extractors.run() in the first pass: a blocked extractor
\* is passed over, the first extractor that validates the query is selected
SearchRunValidate ==
    LET x == player.extractors[search.i] IN
    /\ search.pc = "run1"
    /\ IF Blocked(search, x)
       THEN search' = Run1([search EXCEPT !.i = @ + 1])
       ELSE \E out \in ValidateOutcomes(x, search.type) :
              LET s == [search EXCEPT !.vlog = @ \cup
                           {[x |-> x, pass |-> 1, type |-> search.type, out |-> out]}]
              IN search' = IF out = "true"
                           THEN [s EXCEPT !.pc = "handle", !.ext = x]
                           ELSE Run1([s EXCEPT !.i = @ + 1])
    /\ UNCHANGED <<nodes, queues, calls, emitted, voiceVars, player, auxVars>>

\* await extractor.handle(query, context).catch(() => null)
SearchHandle ==
    /\ search.pc = "handle"
    /\ \E out \in HandleOutcomes(search.ext) :
          LET s == [search EXCEPT !.hlog = @ \cup
                       {[x |-> search.ext, pass |-> 1, out |-> out]}]
          IN search' = IF out = Throw
                       THEN Run2([s EXCEPT !.pc = "run2", !.i = 1])
                       ELSE SearchFound(s, SearchResult(s.query, s.type, out, s.ext))
    /\ UNCHANGED <<nodes, queues, calls, emitted, voiceVars, player, auxVars>>

\* SearchRunFallback passing over the extractor whose handle threw
SearchRunFallbackExcluding ==
    LET x == player.extractors[search.i]
        next(s) == Run2([s EXCEPT !.i = @ + 1, !.last = x])
    IN
    /\ search.pc = "run2"
    /\ IF Blocked(search, x) \/ x = search.ext
       THEN search' = next(search)
       ELSE \E v \in ValidateOutcomes(x, NoType) :
              LET s1 == [search EXCEPT !.vlog = @ \cup
                            {[x |-> x, pass |-> 2, type |-> NoType, out |-> v]}]
              IN IF v # "true"
                 THEN search' = next(s1)
                 ELSE \E h \in HandleOutcomes(x) :
                        LET s2 == [s1 EXCEPT !.hlog = @ \cup
                                      {[x |-> x, pass |-> 2, out |-> h]}]
                        IN search' = IF h = Throw
                                     THEN next(s2)
                                     ELSE SearchFound(s2, SearchResult(s2.query, s2.type, h, x))
    /\ UNCHANGED <<nodes, queues, calls, emitted, voiceVars, player, auxVars>>

\* one iteration of extractors.run() in the fallback pass:
\* !blocked && (await ext.validate(query)) && ext.handle(query, context)
SearchRunFallback ==
    LET x == player.extractors[search.i]
        next(s) == Run2([s EXCEPT !.i = @ + 1, !.last = x])
    IN
    /\ search.pc = "run2"
    /\ IF Blocked(search, x)
       THEN search' = next(search)
       ELSE \E v \in ValidateOutcomes(x, NoType) :
              LET s1 == [search EXCEPT !.vlog = @ \cup
                            {[x |-> x, pass |-> 2, type |-> NoType, out |-> v]}]
              IN IF v # "true"
                 THEN search' = next(s1)
                 ELSE \E h \in HandleOutcomes(x) :
                        LET s2 == [s1 EXCEPT !.hlog = @ \cup
                                      {[x |-> x, pass |-> 2, out |-> h]}]
                        IN search' = IF h = Throw
                                     THEN next(s2)
                                     ELSE SearchFound(s2, SearchResult(s2.query, s2.type, h, x))
    /\ UNCHANGED <<nodes, queues, calls, emitted, voiceVars, player, auxVars>>

\* SearchAddData leaving out the result of a forced extractor
SearchAddDataUnforced ==
    LET on == player.queryCache.enabled /\ ~StartsWithExt(search.engine) IN
    /\ search.pc = "addData"
    /\ player' = IF on
                 THEN [player EXCEPT !.queryCache.data = QueryCacheAddData(@, search.result)]
                 ELSE player
    /\ search' = [search EXCEPT !.pc = "done",
                                !.wrote = IF on THEN {search.result} ELSE {}]
    /\ UNCHANGED <<nodes, queues, calls, emitted, voiceVars, auxVars>>

\* await this.queryCache?.addData(result), then return result
SearchAddData ==
    LET on == player.queryCache.enabled IN
    /\ search.pc = "addData"
    /\ player' = IF on
                 THEN [player EXCEPT !.queryCache.data = QueryCacheAddData(@, search.result)]
                 ELSE player
    /\ search' = [search EXCEPT !.pc = "done",
                                !.wrote = IF on THEN {search.result} ELSE {}]
    /\ UNCHANGED <<nodes, queues, calls, emitted, voiceVars, auxVars>>

\* one step of a search() invocation that is past its first await
SearchStep ==
    \/ SearchCacheResolve
    \/ SearchRunValidate
    \/ SearchHandle
    \/ SearchRunFallback
    \/ SearchAddData

\* the registries, default block lists and cache settings of a Player
Registries ==
    {<<>>} \cup {<<x>> : x \in ExtractorIds}
    \cup {r \in {<<x, y>> : x, y \in ExtractorIds} : r[1] # r[2]}

Players ==
    {NewPlayer(reg, blk, on) :
        reg \in Registries, blk \in {{}, {"other"}}, on \in BOOLEAN}

SearchEngines ==
    {NoEngine, QT("appleMusicSong"), QT("youtubeSearch")}
    \cup {Ext(x) : x \in ExtractorIds}

SearchQueries ==
    {StringQuery("text"), StringQuery("appleUrl"),
     TrackQuery("auto", NoPlaylist, Null), TrackQuery("appleMusicSong", 1, "apple"),
     PlaylistQuery(0, Null), PlaylistQuery(1, "apple"), ArrayQuery(0), ArrayQuery(1)}

BlockLists == {NoBlockList, BlockList({}), BlockList({"apple"})}

\* one search() on a Player with any registry and cache setting
InitSearch == InitCore /\ player \in Players /\ InitAux

NextSearch ==
    \/ \E q \in SearchQueries, eng \in SearchEngines, ic \in BOOLEAN, b \in BlockLists :
          search.count = 0 /\ SearchCall(q, eng, ic, b)
    \/ SearchStep

SpecSearch == InitSearch /\ [][NextSearch]_vars

\* repeated searches for strings on a Player with two extractors and a cache
NextCache ==
    \/ \E v \in {"text", "appleUrl"}, eng \in {NoEngine, Ext("apple")}, ic \in BOOLEAN :
          SearchCall(StringQuery(v), eng, ic, NoBlockList)
    \/ SearchStep

SpecCache == Init /\ [][NextCache]_vars

\* forced and unforced searches for one string, the fallback engine given or not
NextForced ==
    \/ \E eng \in {NoEngine, Ext("apple")}, fb \in {AUTO_SEARCH, Ext("apple")},
            ic \in BOOLEAN :
          SearchCallWith(StringQuery("text"), eng, fb, ic, NoBlockList)
    \/ SearchStep

SpecForced == Init /\ [][NextForced]_vars

\* ------------------------------------------------------ Player instances
\* new Player(client, { ignoreInstance }): the singleton is returned, or the
\* constructor body runs and the first Player becomes the singleton
PlayerConstruct(ignoreInstance) ==
    LET id == Len(player.instances) + 1 IN
    /\ IF ~ignoreInstance /\ player.singleton # NoPlayer
       THEN player' = [player EXCEPT !.returned = player.singleton]
       ELSE /\ id <= MaxPlayers
            /\ player' = [player EXCEPT
                             !.instances = Append(@, NewInstance),
                             !.singleton = IF @ = NoPlayer THEN id ELSE @,
                             !.returned = id]
    /\ UNCHANGED <<nodes, queues, calls, emitted, voiceVars, search, auxVars>>

\* Player.singleton(client, options): new Player with ignoreInstance false
PlayerSingleton == PlayerConstruct(FALSE)

\* the queues registered with the Player, in guild order
RegisteredQueues == {nodes[g] : g \in Guilds} \ {NoQueue}

RECURSIVE DeleteAll(_, _)
\* this.nodes.cache.forEach((node) => node.delete())
DeleteAll(hs, qs) ==
    IF qs = {} THEN hs
    ELSE LET q == CHOOSE x \in qs : \A y \in qs : x <= y
         IN DeleteAll(QueueDelete(hs, q), qs \ {q})

\* PlayerDestroy that also removes Player[kSingleton]
PlayerDestroyClears(id) ==
    LET hs == IF id = 1 THEN DeleteAll(HState, RegisteredQueues) ELSE HState IN
    /\ id \in 1..Len(player.instances)
    /\ queues' = hs.qs /\ nodes' = hs.ns /\ timers' = hs.tm
    /\ options' = IF id = 1 THEN [options EXCEPT !.listener = FALSE] ELSE options
    /\ player' = [player EXCEPT
                     !.extractors = IF id = 1 THEN <<>> ELSE @,
                     !.instances[id] = [@ EXCEPT !.registered = FALSE,
                                                 !.destroyed = TRUE],
                     !.singleton = IF @ = id THEN NoPlayer ELSE @]
    /\ UNCHANGED <<calls, emitted, voice, search, auxVars>>

\* player.destroy(): the queues are deleted, the listeners removed, the
\* extractors unregistered and the Player taken out of _internals.instances;
\* queues, listeners and extractors are modelled for the first Player
PlayerDestroy(id) ==
    LET hs == IF id = 1 THEN DeleteAll(HState, RegisteredQueues) ELSE HState IN
    /\ id \in 1..Len(player.instances)
    /\ queues' = hs.qs /\ nodes' = hs.ns /\ timers' = hs.tm
    /\ options' = IF id = 1 THEN [options EXCEPT !.listener = FALSE] ELSE options
    /\ player' = [player EXCEPT
                     !.extractors = IF id = 1 THEN <<>> ELSE @,
                     !.instances[id] = [@ EXCEPT !.registered = FALSE,
                                                 !.destroyed = TRUE]]
    /\ UNCHANGED <<calls, emitted, voice, search, auxVars>>

\* the process before any Player is constructed
InitProcess ==
    /\ InitCore
    /\ player = [NewPlayer(<<"apple", "other">>, {}, TRUE) EXCEPT
                    !.singleton = NoPlayer, !.instances = <<>>,
                    !.returned = NoPlayer]
    /\ InitAux

\* constructions, destructions and play() calls on the first Player
NextSingleton ==
    \/ \E ig \in BOOLEAN : PlayerConstruct(ig)
    \/ PlayerSingleton
    \/ \E id \in 1..MaxPlayers : PlayerDestroy(id)
    \/ \E c \in Calls, g \in CoreGuilds :
          player.instances # <<>> /\ PlayCall(c, g, "vc1", Single, TRUE)
    \/ \E c \in Calls : PlayStep(c)

SpecSingleton == InitProcess /\ [][NextSingleton]_vars

\* ------------------------------------------------------------------ claims
\* the call is inside its ticket-guarded section, suspended on an await
InSection(c) == calls[c].pc \in {"connect", "nodePlay"}

\* the call holds an entry of the tasks queue
HasTicket(c) == calls[c].id > 0

GuildOf(c) == queues[calls[c].q].guild

Resolved(c) == HasTicket(c) /\ calls[c].pc # "getTask"

C4_EventuallyCompletes ==
    \A c \in Calls :
        (calls[c].pc = "getTask") ~> (calls[c].pc \in {"done", "failed"} /\ calls[c].rel = 1)

\* an invocation that had to wait behind two earlier entries has completed
C4_Witness ==
    \E c \in Calls :
        /\ calls[c].waited /\ calls[c].id >= 3
        /\ calls[c].pc \in {"done", "failed"}

\* C5: the enabled ffmpeg selection of a queue changes only while no other
\* operation holds (or waits for) the queue's ticket.
C5_FiltersMutatedByHolder ==
    [][\A q \in DOMAIN queues :
          queues'[q].ffmpegFilters # queues[q].ffmpegFilters
              => queues[q].entries = <<>>]_vars

\* C7: a setter call whose resulting selection equals the current selection
\* acquires no entry and restarts no stream.
C7_SameSelectionNoReplay ==
    \A c \in Calls :
        (calls[c].kind = "setter" /\ calls[c].same)
            => (~HasTicket(c) /\ calls[c].replayed = NoTrack)

\* C6: a replay that waited behind earlier entries restarts the stream of the
\* track that is current at the restart, at that track's elapsed time.
C6_SeekIsElapsedOfCurrent ==
    \A c \in Calls :
        (calls[c].kind = "setter" /\ Resolved(c) /\ calls[c].waited)
            => (calls[c].seekTrack = calls[c].replayed
                    /\ calls[c].seek = calls[c].atElapsed)

\* C8: once a queue is destroyed nothing more happens on it: its tracks,
\* channel, playback and filter selection stay as destruction left them, and
\* no audioFiltersUpdate or emptyChannel event is emitted for it.
C8_NoProgressAfterDelete ==
    /\ \A e \in emitted :
          e.type \in {"audioFiltersUpdate", "emptyChannel"} => ~e.stale
    /\ \A q \in DOMAIN queues :
          queues[q].deleted =>
              /\ queues[q].tracks = <<>> /\ queues[q].currentTrack = NoTrack
              /\ queues[q].channel = Null /\ ~queues[q].playing

\* C9: no countdown armed before a non-bot member rejoined the queue's
\* channel deletes the queue or emits emptyChannel afterwards.
C9_RejoinCancelsCountdown ==
    \A e \in emitted : e.type = "emptyChannel" => ~e.old


\* C10: a play call whose search result has no tracks, with or without a
\* playlist, rejects with 'No results found' and leaves the guild unchanged:
\* no queue is created, no ticket acquired, no connect made, no track added.
C10_EmptyResultRejected ==
    [][\A c \in Calls :
          /\ (calls[c].kind = "none" /\ calls'[c].kind = "play"
                 /\ calls'[c].vc \in Channels /\ IsEmpty(calls'[c].result))
              => /\ calls'[c].pc = "rejected"
                 /\ calls'[c].err = "No results found"
                 /\ calls'[c].q = NoQueue /\ calls'[c].id = 0
                 /\ UNCHANGED <<nodes, queues, voice, timers, emitted>>
          /\ (calls[c].kind = "play" /\ calls[c].vc \in Channels
                 /\ IsEmpty(calls[c].result))
              => calls'[c] = calls[c]]_vars

C10_Witness ==
    \E c \in Calls :
        /\ calls[c].kind = "play" /\ calls[c].pc = "rejected"
        /\ calls[c].result.n = 0 /\ calls[c].result.pl # NoPlaylist
        /\ calls[c].err = "No results found"
        /\ nodes["gA"] # NoQueue /\ queues[nodes["gA"]].tracks # <<>>


\* the play() call failed because queue.connect() rejected
ConnectFailed(c) ==
    calls[c].kind = "play" /\ calls[c].pc = "failed" /\ calls[c].err = "connect"

\* C11: when connect fails inside play(), the error reaches the caller, the
\* entry is released and the guild's queue stays usable: it is still
\* registered and unbound, a later play() call on it becomes head-of-line
\* as soon as the earlier entries are released, and it retries connect.
C11_ConnectFailureRetry ==
    \A c \in Calls :
        ConnectFailed(c) =>
            LET q == calls[c].q IN
            /\ calls[c].rel = 1
            /\ \A k \in 1..Len(queues[q].entries) : queues[q].entries[k] # c
            /\ ~queues[q].deleted /\ nodes[queues[q].guild] = q
            /\ \A d \in Calls :
                  (calls[d].kind = "play" /\ calls[d].q = q /\ calls[d].id > calls[c].id)
                  => /\ (calls[d].pc = "getTask"
                           /\ \A e \in Calls :
                                 (HasTicket(e) /\ calls[e].q = q /\ calls[e].id < calls[d].id)
                                 => calls[e].rel >= 1)
                        => AsyncQueueResolved(queues[q].entries, d)
                     /\ (Resolved(d) /\ queues[q].channel = Null)
                        => (calls[d].pc = "connect" \/ ConnectFailed(d))

\* after a failed connect a later play() on the same queue, which had to
\* wait for its entry, is connecting again
C11_Witness ==
    \E c, d \in Calls :
        /\ ConnectFailed(c)
        /\ calls[d].kind = "play" /\ calls[d].q = calls[c].q
        /\ calls[d].id > calls[c].id /\ calls[d].waited
        /\ calls[d].pc = "connect"


\* the extractors whose validate or handle was called by the current search
Called(s) == {e.x : e \in s.vlog} \cup {e.x : e \in s.hlog}

\* the search was made with an 'ext:<identifier>' engine
Forced(s) == s.kind = "string" /\ StartsWithExt(s.engine)

\* C12: a search with a forced 'ext:<identifier>' engine calls validate and
\* handle of no other extractor, whatever the forced extractor's handle
\* does; with an unregistered identifier it returns an empty SearchResult
\* whose extractor reference is null.
C12_ForcedExtractorOnly ==
    Forced(search) =>
        /\ Called(search) \subseteq {Substring4(search.engine)}
        /\ (search.pc = "done" /\ ExtractorsGet(Substring4(search.engine)) = Null)
            => (search.result.n = 0 /\ search.result.ext = Null /\ Called(search) = {})


\* the current search repeats the query, query type and cache option of the
\* search before it, with caching enabled
Repeated(s) ==
    /\ s.kind = "string" /\ s.prev.kind = "string"
    /\ s.query = s.prev.query /\ s.type = s.prev.type
    /\ ~s.ignoreCache /\ ~s.prev.ignoreCache
    /\ player.queryCache.enabled

\* with ignoreCache the cache is neither read nor written
IgnoreCacheBypasses(s) == s.ignoreCache => (s.reads = 0 /\ s.wrote = {} /\ ~s.hit)

\* C13 as stated: the second of two identical searches with caching enabled
\* returns the cached result and calls no extractor; with ignoreCache the
\* cache is neither read nor written.
C13_SecondSearchFromCache ==
    /\ IgnoreCacheBypasses(search)
    /\ Repeated(search) =>
          /\ Called(search) = {}
          /\ search.pc = "done" => (search.hit /\ search.result = search.prev.result)

\* C13 amended: the second of two identical searches returns the cached
\* result without calling an extractor when the first one returned tracks
\* and the engine is not a forced 'ext:' engine (a forced search never reads
\* the cache, an empty result is never a hit); with ignoreCache the cache is
\* neither read nor written.
C13_CacheHitSkipsExtractors ==
    /\ IgnoreCacheBypasses(search)
    /\ (Repeated(search) /\ ~Forced(search) /\ HasTracks(search.prev.result)) =>
          /\ Called(search) = {}
          /\ search.pc = "done" => (search.hit /\ search.result = search.prev.result)

\* a repeated search was answered from the cache
C13_Witness ==
    /\ Repeated(search) /\ ~Forced(search) /\ HasTracks(search.prev.result)
    /\ search.pc = "done" /\ search.hit /\ search.reads = 1
    /\ search.prev.result.ext # Null


\* C14: search hands a result to the cache only when the result has at least
\* one track and caching is not disabled; an empty result is never written.
C14_CacheWriteNonEmpty ==
    /\ \A r \in search.wrote :
          HasTracks(r) /\ ~search.ignoreCache /\ player.queryCache.enabled
    /\ \A r \in player.queryCache.data : HasTracks(r)


\* C15: during one search neither validate nor handle is called on an
\* extractor of the block list in force (the caller's, or by default the
\* player's), in the first pass, in the fallback pass, or through a forced
\* 'ext:' engine.
C15_BlockedNeverCalled ==
    \A x \in search.block : x \notin Called(search)


\* the handle of the selected (forced or validated) extractor threw
FirstHandleThrew(s) == \E e \in s.hlog : e.pass = 1 /\ e.out = Throw

\* extractor x's handle was called in the fallback pass
Retried(s, x) == \E e \in s.hlog : e.pass = 2 /\ e.x = x

\* an extractor registered before position k succeeded in the fallback pass
WonBefore(s, k) ==
    \E j \in 1..(k - 1) :
        \E e \in s.hlog : e.pass = 2 /\ e.x = player.extractors[j] /\ e.out # Throw

\* C16: when the selected extractor's handle throws, the search goes on to
\* the fallback pass, in which every non-blocked extractor attempts handle
\* directly, in registration order, until the first success; no throw of
\* validate or handle makes the search reject.
C16_ThrowFallsBackToAll ==
    (FirstHandleThrew(search) /\ search.pc = "done") =>
        /\ search.result # NoResult
        /\ \A k \in 1..Len(player.extractors) :
              (~Blocked(search, player.extractors[k]) /\ ~WonBefore(search, k))
              => Retried(search, player.extractors[k])


\* extractor x's validate returned true for the query type in the first pass
Validated(s, x) == \E e \in s.vlog : e.pass = 1 /\ e.x = x /\ e.out = "true"

\* extractor x's validate never succeeds for the query type
NeverValidates(x, type) == "true" \notin ValidateOutcomes(x, type)

\* extractor b's validate succeeds for the query type of the search
Validates(s, b) ==
    /\ "true" \in ValidateOutcomes(b, s.type)
    /\ \A e \in s.vlog : (e.x = b /\ e.pass = 1) => e.out = "true"

\* a finished search with an explicit or resolved query type X over a
\* registry of two extractors: B validates X, the other one fails validate
FailsAndSucceeds(s, b) ==
    /\ s.kind = "string" /\ ~Forced(s) /\ s.pc = "done" /\ ~s.hit
    /\ Len(player.extractors) = 2
    /\ ExtractorsGet(b) = b /\ ~Blocked(s, b) /\ Validates(s, b)
    /\ \A k \in 1..Len(player.extractors) :
          player.extractors[k] # b => NeverValidates(player.extractors[k], s.type)

\* C17 as stated: with A failing validate for X and B succeeding, the
\* result of search(query, {searchEngine: X}) carries B, in either
\* registration order.
C17_ResultCarriesValidator ==
    \A b \in ExtractorIds :
        FailsAndSucceeds(search, b) => search.result.ext = b

\* C17 amended: the result carries B when B's handle returns; when it
\* throws, the fallback pass decides, and the result may be empty and carry
\* the other extractor.
C17_ResultCarriesHandler ==
    \A b \in ExtractorIds :
        (FailsAndSucceeds(search, b)
            /\ \A e \in search.hlog : e.pass = 1 => e.out # Throw)
        => /\ search.result.ext = b
           /\ Validated(search, b)
           /\ \A e \in search.hlog : e.x = b

\* B, registered after A, answered a search that A's validate refused
C17_Witness ==
    /\ FailsAndSucceeds(search, "other")
    /\ player.extractors = <<"base", "other">>
    /\ \E e \in search.vlog : e.x = "base" /\ e.out = "false"
    /\ search.result.ext = "other" /\ HasTracks(search.result)


\* no handle call of the search returned a track
NothingFound(s) == \A e \in s.hlog : e.out = Throw \/ e.out.n = 0

\* C18: when no extractor produces a non-empty result, search returns a
\* SearchResult with zero tracks and a null playlist; it carries an extractor
\* that was attempted if handle was attempted at all.
C18_EmptyResultShape ==
    (search.kind = "string" /\ search.pc = "done" /\ ~search.hit /\ NothingFound(search))
    => /\ search.result.n = 0
       /\ search.result.pl = NoPlaylist
       /\ search.hlog # {} => search.result.ext # Null
       /\ search.result.ext # Null => ExtractorsGet(search.result.ext) # Null


\* C19: a Track, a Playlist or an array of Tracks is wrapped directly into a
\* SearchResult with queryType 'auto': no validate or handle is called and
\* the cache is neither read nor written.
C19_DirectWrapIsAuto ==
    search.kind \in {"track", "playlist", "array"} =>
        /\ search.pc = "done"
        /\ search.result.type = AUTO
        /\ Called(search) = {}
        /\ search.reads = 0 /\ search.wrote = {} /\ ~search.hit

\* the fallback pass reached extractor x: its validate(query) was called
Reached(s, x) == \E e \in s.vlog : e.pass = 2 /\ e.x = x

\* C20 as stated: after the selected extractor's handle threw, the fallback
\* pass retries every registered non-blocked extractor, the one that threw
\* included.
C20_FallbackRetriesAll ==
    (FirstHandleThrew(search) /\ search.pc = "done") =>
        \A k \in 1..Len(player.extractors) :
            ~Blocked(search, player.extractors[k]) => Reached(search, player.extractors[k])

\* C20 amended: the fallback pass does not exclude the extractor whose
\* handle threw; it goes through the non-blocked extractors in registration
\* order, the one that threw included, until the first success, and calls
\* handle on those whose validate(query) returns true.
C20_FallbackRetriesUntilSuccess ==
    (FirstHandleThrew(search) /\ search.pc = "done") =>
        \A k \in 1..Len(player.extractors) :
            LET x == player.extractors[k] IN
            (~Blocked(search, x) /\ ~WonBefore(search, k))
            => /\ Reached(search, x)
               /\ (\E e \in search.vlog : e.pass = 2 /\ e.x = x /\ e.out = "true")
                    => Retried(search, x)

\* the extractor whose handle threw was asked to handle the query again
C20_Witness ==
    /\ FirstHandleThrew(search) /\ search.pc = "done"
    /\ Retried(search, search.ext)
    /\ Len(player.extractors) = 2

\* the tracks of a queue read back: the current track, then the track list
QueueContent(qr) ==
    (IF qr.currentTrack = NoTrack THEN <<>> ELSE <<qr.currentTrack>>) \o qr.tracks

\* play() call c has passed queue.addTrack on a queue it created
EnqueuedFresh(c) ==
    /\ calls[c].kind = "play" /\ calls[c].id = 1
    /\ \/ calls[c].pc \in {"nodePlay", "done"}
       \/ calls[c].pc = "failed" /\ calls[c].err = "play"

\* C21: a play() with a playlist of k tracks on a fresh guild enqueues exactly
\* those k tracks in the playlist's order: the current track followed by the
\* track list starts with the k tracks, and none of them occurs again.
C21_PlaylistRoundTrip ==
    \A c \in Calls :
        (EnqueuedFresh(c) /\ calls[c].result.pl # NoPlaylist) =>
            LET k == calls[c].result.pl
                content == QueueContent(queues[calls[c].q])
            IN /\ Len(content) >= k
               /\ SubSeq(content, 1, k) = TracksOfCall(c, k)
               /\ \A i \in (k + 1)..Len(content), j \in 1..k :
                      content[i] # TrackOf(c, j)

\* a playlist of MaxTracks tracks is playing and a later play() has appended
C21_Witness ==
    \E c, d \in Calls :
        /\ EnqueuedFresh(c) /\ calls[c].pc = "done"
        /\ calls[c].result.pl = MaxTracks
        /\ calls[d].kind = "play" /\ calls[d].q = calls[c].q
        /\ calls[d].id > 1 /\ calls[d].pc = "done"
        /\ queues[calls[c].q].currentTrack = TrackOf(c, 1)
        /\ Len(QueueContent(queues[calls[c].q])) > MaxTracks

\* a voice-state event reaches the handler while the guild's registered queue
\* q is connected
EventFor(q) == voice' # voice /\ q # NoQueue /\ queues[q].channel # Null

\* the bot's state goes from a channel to no channel
BotLeaves == voice[Me].ch # Null /\ voice'[Me].ch = Null

\* the bot's state goes from no channel to a channel
BotJoins == voice[Me].ch = Null /\ voice'[Me].ch # Null

\* a non-bot member leaves voice from the queue's channel and leaves it empty
LastHumanLeaves(q) ==
    /\ \E h \in Humans : voice[h].ch = queues[q].channel /\ voice'[h].ch = Null
    /\ IsVoiceEmpty(voice', queues[q].channel)

\* the events a step adds, other than the call of the caller's handler
DefaultEvents == {e \in emitted' \ emitted : e.type # "voiceStateUpdate"}

\* the caller's handler was called with the old and the new state, before
\* the queue was touched
HandlerCalled(q) ==
    /\ [type |-> "voiceStateUpdate", q |-> q,
        locked |-> options.lockVoiceStateHandler] \in emitted'
    /\ \E m \in Members :
          /\ voice'[m] # voice[m]
          /\ options'.handled = [m |-> m, from |-> voice[m].ch,
                                 to |-> voice'[m].ch, deleted |-> FALSE]

\* C22: with a caller-supplied voiceStateUpdate handler every voice-state
\* event calls that handler first; while the handler is not locked the default
\* reconciliation is skipped (no deletion, no pause change, no countdown, no
\* event), and while it is locked the default reconciliation runs after it.
C22_HandlerOverride ==
    [][\A g \in CoreGuilds :
          (EventFor(nodes[g]) /\ options.listener) =>
              LET q == nodes[g] IN
              /\ HandlerCalled(q)
              /\ IF ~options.lockVoiceStateHandler
                 THEN /\ queues' = queues /\ nodes' = nodes /\ timers' = timers
                      /\ DefaultEvents = {}
                 ELSE /\ BotLeaves =>
                             /\ queues'[q].deleted
                             /\ Disconnect({}, q) \in emitted'
                      /\ (BotJoins /\ voice'[Me].mute # voice[Me].mute) =>
                             queues'[q].paused = voice'[Me].mute
                      /\ (LastHumanLeaves(q) /\ ~BotLeaves) =>
                             timers'.armed = timers.armed + 1]_vars

\* the locked handler let a countdown be armed by a member's leave, and after
\* the unlock the bot's disconnect was left to the caller's handler
C22_Witness ==
    /\ options.listener /\ ~options.lockVoiceStateHandler
    /\ options.handled.m = Me
    /\ options.handled.from # Null /\ options.handled.to = Null
    /\ \E e \in emitted, t \in timers.pending :
          /\ e.type = "voiceStateUpdate" /\ e.locked
          /\ t.q = e.q /\ ~queues[e.q].deleted /\ nodes[queues[e.q].guild] = e.q

\* the 'disconnect' events emitted for queue q
DisconnectsOf(em, q) == {e \in em : e.type = "disconnect" /\ e.q = q}

DefaultRuns == ~options.listener \/ options.lockVoiceStateHandler

\* C24: whenever the bot's server mute changes, or its suppress flag changes
\* in a stage channel, the paused state of the queue becomes the new value,
\* also when the bot stays in the same channel.
C24_MutePauses ==
    [][\A g \in CoreGuilds :
          (EventFor(nodes[g]) /\ DefaultRuns /\ voice'[Me].ch # Null) =>
              LET q == nodes[g] IN
              /\ voice'[Me].mute # voice[Me].mute =>
                     queues'[q].paused = voice'[Me].mute
              /\ (/\ voice'[Me].mute = voice[Me].mute
                  /\ voice'[Me].suppress # voice[Me].suppress
                  /\ voice'[Me].ch \in StageChannels) =>
                     queues'[q].paused = voice'[Me].suppress]_vars

\* call c acquired its entry behind an entry of the same queue that has not
\* been released
Behind(c) ==
    /\ HasTicket(c)
    /\ \E d \in Calls :
          /\ HasTicket(d) /\ calls[d].q = calls[c].q
          /\ calls[d].id < calls[c].id /\ calls[d].rel = 0

\* call c is an invocation on guild g
OnGuild(c, g) == calls[c].q # NoQueue /\ GuildOf(c) = g

StagesOf(out) ==
    [equalizer |-> out.equalizer, biquad |-> out.biquad, filters |-> out.filters,
     volume |-> out.volume]

\* C26: a dump() taken while a stream is active holds the live dispatcher
\* values of every stage, and one taken while the queue is idle holds the
\* values of _lastFiltersCache, the configured volume included.
C26_DumpLiveOrCached ==
    graph.dumped.taken =>
        LET d == graph.dumped.dispatcher
            cache == graph.dumped.cache
            out == graph.dumped.out
        IN IF d.live
           THEN /\ StagesOf(out) = StagesOf(CacheOf(d))
                /\ out.sampleRate = SampleRate(d)
           ELSE /\ StagesOf(out) = StagesOf(cache)
                /\ cache.sampleRate # -1 => out.sampleRate = cache.sampleRate

\* the enabled pitch-class stages of a selection
PitchStages(fs) == {f \in {"nightcore", "vaporwave"} : Includes(fs, f)}

\* C27: a setter call computes its seek offset ignoring filters exactly when
\* the new selection has another set of enabled pitch-class stages
\* (nightcore, vaporwave) than the selection it replaces.
C27_PitchChangeResets ==
    \A c \in Calls :
        calls[c].kind = "setter" =>
            (calls[c].ignore <=> PitchStages(calls[c].prev) # PitchStages(calls[c].next))

\* the stages setFilters(input) is to enable
Selected(input) ==
    IF input.form = "bool" THEN (IF input.v THEN FilterSet ELSE {})
    ELSE IF input.form = "list" THEN {input.v[i] : i \in 1..Len(input.v)}
    ELSE {input.v[i][1] : i \in {j \in 1..Len(input.v) : input.v[j][2] = TRUE}}

\* the stages a selection enables
Enabled(fs) == {fs[i] : i \in 1..Len(fs)}

\* C28: setFilters(input) replaces the selection: true enables all known
\* stages, false none, a list exactly the listed ones, a record exactly the
\* names mapped to true; a stage enabled before and absent from the input is
\* disabled, and no stage is listed twice.
C28_SetFiltersReplaces ==
    \A c \in Calls :
        (calls[c].kind = "setter" /\ calls[c].input.form \in {"bool", "list", "record"}) =>
            /\ Enabled(calls[c].next) = Selected(calls[c].input)
            /\ Cardinality(Enabled(calls[c].next)) = Len(calls[c].next)
            /\ Enabled(calls[c].prev) \ Selected(calls[c].input)
                   \subseteq FilterSet \ Enabled(calls[c].next)

\* setFilters(true) enabled every stage, and a record that maps nightcore to
\* false and bassboost to true replaced that selection
C28_Witness ==
    \E c, d \in Calls :
        /\ calls[d].kind = "setter" /\ calls[d].input.form = "bool"
        /\ calls[d].next = FilterNames
        /\ calls[c].kind = "setter" /\ calls[c].input.form = "record"
        /\ calls[c].prev = FilterNames
        /\ calls[c].next = <<"bassboost">>

\* C29: stream(track) fails with 'Could not initialize streaming api' in
\* every state in which no activate() has completed and never calls an
\* undefined stream function; once an activate() has completed it never
\* raises that error.
C29_StreamNeedsActivation ==
    \A s \in apple.streamed :
        /\ s.out # "undefined is not a function"
        /\ s.out = "Could not initialize streaming api" <=> ~s.activated

\* stream() was refused while loadYtdl() was pending, and went through to
\* the stream function after the activation
C29_Witness ==
    /\ apple.started > 0
    /\ [activated |-> FALSE, out |-> "Could not initialize streaming api"]
           \in apple.streamed
    /\ [activated |-> TRUE, out |-> "ytdl"] \in apple.streamed

\* the empty-channel countdowns of guild g that are still running
CountdownsOf(g) == {t \in timers.pending : queues[t.q].guild = g}

\* C30: at most one empty-channel countdown is pending per guild, whatever
\* the sequence of leave, join and move events.
C30_OneCountdownPerGuild ==
    \A g \in Guilds : Cardinality(CountdownsOf(g)) <= 1

\* the countdown whose callback runs in this step
FiredTimer == CHOOSE t \in timers.pending : t.id = timers'.fired

\* C31: when a countdown fires, the queue is deleted only if its channel is
\* still empty, the guild still has a registered queue and leaveOnEmpty is
\* set; 'emptyChannel' is emitted whenever the first two hold, also without
\* leaveOnEmpty; nothing is deleted or emitted when the channel is not empty.
C31_CountdownFires ==
    [][timers'.fired # timers.fired =>
          LET t == FiredTimer
              qr == queues[t.q]
              empty == IsVoiceEmpty(voice, qr.channel)
              registered == nodes[qr.guild] # NoQueue
          IN /\ queues' # queues => (empty /\ registered /\ qr.leaveOnEmpty)
             /\ (empty /\ registered) =>
                    /\ \E e \in emitted' : e.type = "emptyChannel" /\ e.q = t.q
                    /\ qr.leaveOnEmpty => queues'[t.q].deleted
             /\ ~empty => (queues' = queues /\ emitted' = emitted)]_vars

\* call c enters the given await of Player.play in this step
Enters(c, pc) == calls[c].pc # pc /\ calls'[c].pc = pc

\* a call has connected the queue and started playback on it
Started(q) == queues[q].channel # Null /\ IsPlaying(queues[q])

\* C32: connect is invoked only by the holder of the head entry that sees no
\* channel, node.play() only by the holder that sees the queue not playing;
\* once the queue is connected and playing, a later play() neither connects
\* nor starts playback, it appends its tracks and releases.
C32_ConnectAndStartOnce ==
    [][\A c \in Calls : calls[c].kind = "play" /\ calls[c].q # NoQueue =>
          LET q == calls[c].q
              holder == AsyncQueueResolved(queues[q].entries, c)
          IN /\ Enters(c, "connect") => holder /\ queues[q].channel = Null
             /\ Enters(c, "nodePlay") => holder /\ ~IsPlaying(queues[q])
             /\ (Started(q) /\ calls[c].pc = "getTask" /\ calls'[c].pc # "getTask") =>
                    /\ calls'[c].pc = "done"
                    /\ queues'[q].tracks =
                           queues[q].tracks \o PlayTracksToAdd(c, calls[c].result)
                    /\ queues'[q].currentTrack = queues[q].currentTrack
                    /\ queues'[q].channel = queues[q].channel]_vars

\* two concurrent calls finished: the first connected and plays its track,
\* the one that waited behind it has only enqueued
C32_Witness ==
    \E c, d \in Calls :
        /\ c # d /\ calls[c].q = calls[d].q /\ calls[c].q # NoQueue
        /\ calls[c].pc = "done" /\ calls[d].pc = "done" /\ calls[d].waited
        /\ Started(calls[c].q)
        /\ queues[calls[c].q].currentTrack = TrackOf(c, 1)
        /\ \E i \in 1..Len(queues[calls[c].q].tracks) :
               queues[calls[c].q].tracks[i] = TrackOf(d, 1)

\* the audioFiltersUpdate events emitted for setter call c
UpdatesOf(c) == {e \in emitted : e.type = "audioFiltersUpdate" /\ e.by = c}

\* C33: a setter call emits exactly one audioFiltersUpdate, after its replay
\* attempt has finished, carrying the selection before the call as old value
\* and the selection the call installed as new value, also with two setter
\* calls in flight.
C33_UpdateCarriesOwnSelection ==
    \A c \in Calls : calls[c].kind = "setter" =>
        /\ Cardinality(UpdatesOf(c)) = (IF calls[c].pc = "done" THEN 1 ELSE 0)
        /\ \A e \in UpdatesOf(c) : e.old = calls[c].prev /\ e.new = calls[c].next

\* C34: a setter called with no current track replaces the stored selection,
\* and its triggerReplay returns false with the entries of the ticket queue
\* and the stream untouched; a replay whose node.play throws resolves (to
\* false, having only released its entry) and never rejects.
C34_ReplayWithoutTrackOrThrown ==
    [][\A c \in Calls :
          /\ (calls[c].kind = "none" /\ calls'[c].kind = "setter"
                 /\ queues[calls'[c].q].currentTrack = NoTrack) =>
                LET q == calls'[c].q IN
                /\ calls'[c].pc = "emit" /\ ~calls'[c].ok /\ calls'[c].err = Null
                /\ queues'[q] = [queues[q] EXCEPT !.ffmpegFilters = calls'[c].next]
                /\ calls'[c].input.form \in {"bool", "list", "record"} =>
                       calls'[c].next = Dedupe(SetFiltersList(calls'[c].input))
          /\ (calls[c].kind = "setter" /\ calls[c].pc = "nodePlay"
                 /\ calls'[c].pc # "nodePlay") =>
                /\ calls'[c].pc = "emit" /\ calls'[c].err = Null
                /\ ~calls'[c].ok =>
                       queues'[calls[c].q] = QueueRelease(queues[calls[c].q])]_vars

\* one setter ran with no current track and changed the selection, another
\* one's replay was thrown out of node.play; both have resolved to false
C34_Witness ==
    \E c, d \in Calls :
        /\ calls[c].kind = "setter" /\ calls[c].pc = "done" /\ ~calls[c].ok
        /\ calls[c].seekTrack = NoTrack /\ calls[c].id = 0
        /\ calls[c].next # calls[c].prev
        /\ calls[d].kind = "setter" /\ calls[d].pc = "done" /\ ~calls[d].ok
        /\ calls[d].replayed # NoTrack /\ calls[d].rel = 1

\* no stage occurs twice in the list
NoRepeat(fs) == \A i, j \in 1..Len(fs) : fs[i] = fs[j] => i = j

\* C35: the enabled stage list never contains the same stage twice, after
\* any sequence of setFilters, toggle, the filters setter and setDefaults
\* calls with arbitrary, possibly repeating, inputs.
C35_NoStageTwice ==
    \A q \in DOMAIN queues : NoRepeat(queues[q].ffmpegFilters)

\* the stages named in a toggle call
Toggled(c) == Enabled(calls[c].input.v)

\* call d is toggle(F) applied right after call c's toggle(F) on one queue
ToggledAgain(c, d) ==
    /\ d = c + 1 /\ calls[d].kind = "setter" /\ calls[d].input = calls[c].input
    /\ calls[d].q = calls[c].q /\ calls[d].prev = calls[c].next

\* C36: toggle(F) disables every stage of F that is enabled, enables every
\* stage of F that is not and leaves the stages outside F as they are;
\* toggle(F) applied twice restores the original set of enabled stages.
C36_ToggleFlips ==
    \A c \in Calls : (calls[c].kind = "setter" /\ calls[c].input.form = "toggle") =>
        /\ \A f \in FilterSet :
              (f \in Enabled(calls[c].next)) =
                  (IF f \in Toggled(c) THEN f \notin Enabled(calls[c].prev)
                                       ELSE f \in Enabled(calls[c].prev))
        /\ \A d \in Calls : ToggledAgain(c, d) =>
              Enabled(calls[d].next) = Enabled(calls[c].prev)

\* toggle of a list that repeats a stage, on a selection that repeats another
\* one, applied twice
C36_Witness ==
    \E c, d \in Calls :
        /\ calls[c].kind = "setter" /\ calls[c].input.form = "toggle"
        /\ calls[c].input.v = <<"nightcore", "nightcore">>
        /\ calls[c].prev = <<"bassboost", "bassboost">>
        /\ ToggledAgain(c, d)
        /\ calls[d].pc = "done"

\* play() call c passes queue.addTrack in this step
AddsTracks(c) ==
    /\ calls[c].kind = "play" /\ calls[c].pc \in {"getTask", "connect"}
    /\ calls'[c].pc \in {"nodePlay", "done"}

\* C37: play() appends the whole playlist when the result carries one, and
\* otherwise the first track of the result and no other; the track it returns
\* is the first track of the result.
C37_FirstTrackOrPlaylist ==
    [][\A c \in Calls :
          LET r == calls[c].result
              qr == queues[calls[c].q]
              added == SubSeq(queues'[calls[c].q].tracks, Len(qr.tracks) + 1,
                              Len(queues'[calls[c].q].tracks))
          IN /\ AddsTracks(c) =>
                   /\ SubSeq(queues'[calls[c].q].tracks, 1, Len(qr.tracks)) = qr.tracks
                   /\ IF r.pl # NoPlaylist
                      THEN added = [i \in 1..r.pl |-> TrackOf(c, i)]
                      ELSE added = <<TrackOf(c, 1)>>
             /\ (calls[c].kind = "play" /\ calls[c].pc # "done"
                    /\ calls'[c].pc = "done") => calls'[c].track = TrackOf(c, 1)]_vars

\* a result of two tracks and no playlist was played: its first track is
\* returned and in the queue, its second track is not
C37_Witness ==
    \E c \in Calls :
        /\ calls[c].kind = "play" /\ calls[c].pc = "done"
        /\ calls[c].result = [n |-> 2, pl |-> NoPlaylist]
        /\ calls[c].track = TrackOf(c, 1)
        /\ \E i \in 1..Len(QueueContent(queues[calls[c].q])) :
               QueueContent(queues[calls[c].q])[i] = TrackOf(c, 1)
        /\ \A i \in 1..Len(QueueContent(queues[calls[c].q])) :
               QueueContent(queues[calls[c].q])[i] # TrackOf(c, 2)

\* a handle call of the search returned an ExtractorInfo
Handled(s) == \E e \in s.hlog : e.out # Throw

\* the search repeats, unforced, the forced search made before it
RepeatsForced(s) ==
    /\ Repeated(s) /\ ~Forced(s)
    /\ StartsWithExt(s.prev.engine) /\ HasTracks(s.prev.result)

\* C38: a search with a forced 'ext:' engine never reads the cache, yet its
\* result is written to the cache unless ignoreCache is set, so that a later
\* unforced search for the same query and type is answered from the cache
\* with the result of the forced search.
C38_ForcedWritesCache ==
    /\ Forced(search) => (search.reads = 0 /\ ~search.hit)
    /\ (Forced(search) /\ search.pc = "done" /\ Handled(search)
           /\ ~search.ignoreCache) =>
          /\ search.wrote = {search.result}
          /\ search.result \in player.queryCache.data
    /\ RepeatsForced(search) =>
          /\ Called(search) = {}
          /\ search.pc = "done" => (search.hit /\ search.result = search.prev.result)

\* an unforced search returned from the cache what the forced extractor found
C38_Witness ==
    /\ RepeatsForced(search) /\ search.pc = "done" /\ search.hit
    /\ search.reads = 1 /\ search.wrote = {}
    /\ search.result.ext = "apple" /\ search.prev.engine = Ext("apple")

\* C39: Player[kSingleton] is set by the first Player constructed and never
\* replaced; a later construction without ignoreInstance returns that Player
\* and runs no constructor body, also after its destroy(); a construction
\* with ignoreInstance creates another Player and leaves the singleton alone.
C39_SingletonSetOnce ==
    [][/\ player.singleton # NoPlayer => player'.singleton = player.singleton
       /\ player'.singleton = (IF player'.instances = <<>> THEN NoPlayer ELSE 1)
       /\ \A id \in 1..Len(player.instances) :
             player'.instances[id].inits = player.instances[id].inits
       /\ (player.singleton # NoPlayer /\ player'.returned # player.returned) =>
             \/ /\ player'.returned = player.singleton
                /\ player'.instances = player.instances
             \/ /\ player'.returned = Len(player.instances) + 1
                /\ player'.instances = Append(player.instances, NewInstance)]_vars

\* the singleton was destroyed, another Player was made with ignoreInstance,
\* and the last construction gave back the destroyed singleton
C39_Witness ==
    /\ player.singleton = 1 /\ Len(player.instances) >= 2
    /\ player.instances[1].destroyed /\ player.instances[1].inits = 1
    /\ player.returned = 1

====
